---- MODULE Spec2Model ----
(***************************************************************************)
(* Voice sales-agent browser client: playback scheduler, interrupt         *)
(* arbitration (first SalesAgentApp definition of app.js) and the          *)
(* frame-counting voice-activity detectors (vad-client.js,                 *)
(* audio-worklet-processor.js).                                            *)
(*                                                                         *)
(* Times are milliseconds (Date.now()).  The audio clock                   *)
(* webAudioContext.currentTime is read off the same clock.  Speech         *)
(* probabilities are in hundredths (0.85 is 85), worklet energies in       *)
(* thousandths (0.01 is 10).                                               *)
(***************************************************************************)
EXTENDS Integers, Sequences, FiniteSets, TLC

\* ---------------------------------------------------------------- bounds
MaxChunks == 3
ArbiterChunks == 2
StartTime == 4000
TimeSpan == 3000
TickMs == 1000
ChunkMs == 1000
MaxFrames == 6
SileroFrames == 4
MaxOverlap == 2
MaxBlocks == 7
WindowBlocks == 2
MaxSockets == 6
MaxChunkSteps == 12
MaxSamples == 12000
AudioTickMs == 250

MaxTime == StartTime + TimeSpan
ChunkIds == 1..MaxChunks

\* ------------------------------------------------------ program constants
InterruptThreshold == 85
LocalFeedbackGuardMs == 1000
LocalRateLimitMs == 2000
ServerFeedbackGuardMs == 1200
minInterruptInterval == 2000
WorkletInterruptProb == 20

LocalProbs == {85, 90}
WorkletProbs == {20, 30}

VARIABLES
    \* SalesAgentApp fields
    audioQueue, isAudioPlaying, isAiSpeaking, webAudioContext,
    currentAudioTime, scheduledBuffers, lastAudioStartTime,
    lastInterruptTime, vadEnabled, isCallActive, stream,
    \* environment: clock, socket, sounds, timers
    now, socketOpen, stage, nextChunk, pendingTimers,
    \* observation of the run
    lastStarted, lastStartTime, cancelled, stopsInRow, chunkLimit,
    lastSent, lastAccept, falsePositiveTimer, falsePositiveTimeouts, prevServerSpeech, userHasSpoken,
    \* ClientVAD fields
    threshold, minSpeechDurationMs, minSilenceDurationMs, useEnergyVAD,
    speechFrames, silenceFrames, isSpeaking,
    \* DownsampleTo16kPCM16Processor (worklet) fields
    energyThreshold, wSpeechFrames, wSilenceFrames, minSpeechFrames,
    minSilenceFrames, currentIsSpeaking,
    \* observation of the detectors
    detector, fed, speechStarts, speechEnds, lastStep,
    \* SileroVADClient fields (threshold, durations and isSpeaking are the
    \* fields of the detector in use) and its inferences in flight
    currentSpeechProb, speechStartTime, silenceStartTime, lastStateChange,
    h, inflight, arrived,
    \* the detector's audioBuffer, as the numbers of the sample blocks it
    \* holds; the blocks handed to processFrame / processWindow so far, in
    \* the order of the calls; the number of blocks passed to processAudio
    audioBuffer, framed, pushed,
    \* SalesAgentApp connection fields, the sockets it created and their
    \* pending timers
    readyState, socket, intentionalDisconnect, isLoggedIn,
    reconnectAttempts, reconnectTimers, checkPending,
    \* observation of the connection
    scheduledSinceOpen, scheduledInCall, lastClose, staleTimers, replaced,
    \* a reply whose chunks all last chunkDuration ms; a detector result is
    \* due at the present instant
    chunkDuration, vadDue,
    \* the startCall in flight: the await it is suspended at ("idle" when
    \* none is running) and whether stopCall ran since it began; the
    \* AudioContext, worklet node and recording flag of the call
    startPc, stoppedInStart, audioContext, workletNode, isRecording,
    \* the worklet processor class in use and the sampleRate of its scope;
    \* its _buffer and _vadBuffer; the number of samples process() was given
    \* so far; the 'audioData' messages the last process() call posted and
    \* the number of those posted before it
    processorKind, inputSampleRate, wBuffer, wVadBuffer, consumed, posts,
    postedBefore,
    \* SalesAgentApp.recentAudioHashes, as the set of its entries; the
    \* transmissions of sendRealTimeAudioChunk so far and what its last call
    \* did
    recentAudioHashes, transmitted, lastChunk

appVars == <<audioQueue, isAudioPlaying, isAiSpeaking, webAudioContext,
             currentAudioTime, scheduledBuffers, lastAudioStartTime,
             lastInterruptTime, vadEnabled, isCallActive, stream,
             now, socketOpen, stage, nextChunk, pendingTimers,
             lastStarted, lastStartTime, cancelled, stopsInRow, chunkLimit,
             lastSent, lastAccept, falsePositiveTimer,
             falsePositiveTimeouts, prevServerSpeech,
             userHasSpoken>>

vadVars == <<threshold, minSpeechDurationMs, minSilenceDurationMs,
             useEnergyVAD, speechFrames, silenceFrames, isSpeaking,
             energyThreshold, wSpeechFrames, wSilenceFrames,
             minSpeechFrames, minSilenceFrames, currentIsSpeaking,
             detector, fed, speechStarts, speechEnds, lastStep,
             currentSpeechProb, speechStartTime, silenceStartTime,
             lastStateChange, h, inflight, arrived, audioBuffer, framed,
             pushed>>

sileroVars == <<currentSpeechProb, speechStartTime, silenceStartTime,
                lastStateChange, h, inflight, arrived, audioBuffer, framed,
                pushed>>

connVars == <<readyState, socket, intentionalDisconnect, isLoggedIn,
              reconnectAttempts, reconnectTimers, checkPending,
              scheduledSinceOpen, scheduledInCall, lastClose,
              staleTimers, replaced>>

extraVars == <<chunkDuration, vadDue>>

inCallVars == <<startPc, stoppedInStart, audioContext, workletNode, isRecording>>

workletVars == <<processorKind, inputSampleRate, wBuffer, wVadBuffer,
                 consumed, posts, postedBefore>>

dedupVars == <<recentAudioHashes, transmitted, lastChunk>>

\* What the playback, interrupt and detector handlers never write.
sideVars == <<connVars, extraVars, inCallVars, workletVars, dedupVars>>

vars == <<appVars, vadVars, connVars, extraVars, inCallVars, workletVars,
          dedupVars>>

Range(f) == {f[i] : i \in DOMAIN f}
Max(a, b) == IF a >= b THEN a ELSE b

NoMsg == [source |-> "none", queueEmpty |-> TRUE, isAudioPlaying |-> FALSE,
          isAiSpeaking |-> FALSE, speechProb |-> 0, timestamp |-> 0, n |-> 0]
NoAccept == [path |-> "none", time |-> 0, n |-> 0]
\* What the last detector step did: the outcome of its inference, the
\* callbacks it invoked, the result it returned.
NoStep == [inference |-> "none", callbacks |-> {},
           returned |-> [speechProb |-> 0, isSpeaking |-> FALSE]]

\* --------------------------------------------------------- construction
AppInit(limit) ==
    /\ chunkLimit = limit
    /\ audioQueue = <<>>
    /\ isAudioPlaying = FALSE
    /\ isAiSpeaking = FALSE
    /\ webAudioContext = "null"
    /\ currentAudioTime = 0
    /\ scheduledBuffers = <<>>
    /\ lastAudioStartTime = 0
    /\ lastInterruptTime = 0
    /\ vadEnabled = FALSE
    /\ isCallActive = FALSE
    /\ stream = FALSE
    /\ now = StartTime
    /\ socketOpen = FALSE
    /\ stage = [i \in ChunkIds |-> "unsent"]
    /\ nextChunk = 1
    /\ pendingTimers = 0
    /\ lastStarted = 0
    /\ lastStartTime = 0
    /\ cancelled = {}
    /\ stopsInRow = 0
    /\ lastSent = NoMsg
    /\ lastAccept = NoAccept
    /\ falsePositiveTimer = 0
    /\ falsePositiveTimeouts = {}
    /\ userHasSpoken = FALSE
    /\ prevServerSpeech = FALSE

\* The playback fields one handler run reads and writes, as one record.
Playback ==
    [audioQueue |-> audioQueue, isAudioPlaying |-> isAudioPlaying,
     isAiSpeaking |-> isAiSpeaking, currentAudioTime |-> currentAudioTime,
     scheduledBuffers |-> scheduledBuffers,
     lastAudioStartTime |-> lastAudioStartTime, stage |-> stage]

\* A queued chunk that left the queue without being dequeued is gone.
Settle(s) ==
    [s EXCEPT !.stage = [i \in ChunkIds |->
        IF s.stage[i] = "queued" /\ i \notin Range(s.audioQueue)
        THEN "done" ELSE s.stage[i]]]

Commit(s) ==
    LET t == Settle(s) IN
    /\ audioQueue' = t.audioQueue
    /\ isAudioPlaying' = t.isAudioPlaying
    /\ isAiSpeaking' = t.isAiSpeaking
    /\ currentAudioTime' = t.currentAudioTime
    /\ scheduledBuffers' = t.scheduledBuffers
    /\ lastAudioStartTime' = t.lastAudioStartTime
    /\ stage' = t.stage

\* Chunks dequeued and not yet sounding: awaiting decode or audio.play().
InFlight(st) == {i \in ChunkIds : st[i] \in {"decoding", "starting"}}
\* Sounds that are audible: started BufferSources and Audio elements.
Sounding(st) == {i \in ChunkIds : st[i] \in {"playingWeb", "playingTrad"}}

\* ------------------------------------------------------------- playback
PlayNextFromTail(s) ==
    IF Len(s.audioQueue) = 0 \/ s.isAudioPlaying
    THEN [s EXCEPT !.isAiSpeaking = FALSE]
    ELSE LET n == Len(s.audioQueue)
             chunk == s.audioQueue[n] IN
         [s EXCEPT !.isAudioPlaying = TRUE,
                   !.isAiSpeaking = TRUE,
                   !.lastAudioStartTime = now,
                   !.audioQueue = SubSeq(s.audioQueue, 1, n - 1),
                   !.stage[chunk] = IF webAudioContext = "running"
                                    THEN "decoding" ELSE "starting"]

playNextAudioChunk(s) ==
    IF Len(s.audioQueue) = 0 \/ s.isAudioPlaying
    THEN [s EXCEPT !.isAiSpeaking = FALSE]
    ELSE LET chunk == Head(s.audioQueue) IN
         [s EXCEPT !.isAudioPlaying = TRUE,
                   !.isAiSpeaking = TRUE,
                   !.lastAudioStartTime = now,
                   !.audioQueue = Tail(s.audioQueue),
                   !.stage[chunk] = IF webAudioContext = "running"
                                    THEN "decoding" ELSE "starting"]

\* No Audio element is ever attached to the document: new Audio() only.
DocumentAudioElements == {}

StopKeepsQueue(s) ==
    [s EXCEPT !.isAudioPlaying = FALSE,
              !.isAiSpeaking = FALSE,
              !.scheduledBuffers = <<>>]

stopAudioPlayback(s) ==
    LET halted == (IF webAudioContext # "null"
                   THEN Range(s.scheduledBuffers) ELSE {})
                  \cup DocumentAudioElements IN
    [s EXCEPT !.audioQueue = <<>>,
              !.isAudioPlaying = FALSE,
              !.isAiSpeaking = FALSE,
              !.scheduledBuffers = IF webAudioContext # "null" THEN <<>> ELSE @,
              !.currentAudioTime = IF webAudioContext # "null" THEN now ELSE @,
              !.stage = [i \in ChunkIds |->
                  IF i \in halted /\ s.stage[i] \in {"playingWeb", "playingTrad", "starting"}
                  THEN "done" ELSE s.stage[i]]]

clearAllAudioBuffers(s) ==
    LET t == stopAudioPlayback(s) IN
    [t EXCEPT !.audioQueue = <<>>,
              !.isAudioPlaying = FALSE,
              !.isAiSpeaking = FALSE,
              !.scheduledBuffers = IF webAudioContext # "null" THEN <<>> ELSE @,
              !.currentAudioTime = IF webAudioContext # "null" THEN now ELSE @]


\* ---------------------------------------------------- observation helpers
playbackVars == <<audioQueue, isAudioPlaying, isAiSpeaking, currentAudioTime,
                  scheduledBuffers, lastAudioStartTime, stage>>
callVars == <<webAudioContext, vadEnabled, isCallActive, stream>>
envVars == <<now, socketOpen, nextChunk, pendingTimers, chunkLimit>>
arbVars == <<lastInterruptTime, lastSent, lastAccept, falsePositiveTimer,
             falsePositiveTimeouts,
             prevServerSpeech, userHasSpoken>>
startVars == <<lastStarted, lastStartTime>>

\* cancelled: the chunks a stop found in flight, kept until they are over.
Over(st) == {i \in ChunkIds : st[i] = "done"}

StopObserved ==
    /\ cancelled' = (cancelled \cup InFlight(stage)) \ Over(stage')
    /\ stopsInRow' = IF stopsInRow < 2 THEN stopsInRow + 1 ELSE 2

NoStopObserved ==
    /\ cancelled' = cancelled \ Over(stage')
    /\ stopsInRow' = 0

Snapshot(src, s) ==
    [source |-> src, queueEmpty |-> (Len(s.audioQueue) = 0),
     isAudioPlaying |-> s.isAudioPlaying, isAiSpeaking |-> s.isAiSpeaking,
     speechProb |-> 0, timestamp |-> 0, n |-> 1 - lastSent.n]

Accepted(path) ==
    [path |-> path, time |-> now, n |-> 1 - lastAccept.n]

\* ------------------------------------------------- environment and call
Tick ==
    /\ now + TickMs <= MaxTime
    /\ now' = now + TickMs
    /\ UNCHANGED <<socketOpen, nextChunk, pendingTimers, chunkLimit>>
    /\ UNCHANGED <<playbackVars, callVars, arbVars, startVars,
                   cancelled, stopsInRow>>
    /\ UNCHANGED <<vadVars, sideVars>>

SocketOpened ==
    /\ ~socketOpen
    /\ socketOpen' = TRUE
    /\ UNCHANGED <<now, nextChunk, pendingTimers, chunkLimit>>
    /\ UNCHANGED <<playbackVars, callVars, arbVars, startVars>>
    /\ UNCHANGED <<vadVars, sideVars>>
    /\ NoStopObserved

SocketLost ==
    /\ socketOpen
    /\ socketOpen' = FALSE
    /\ UNCHANGED <<now, nextChunk, pendingTimers, chunkLimit>>
    /\ UNCHANGED <<playbackVars, callVars, arbVars, startVars>>
    /\ UNCHANGED <<vadVars, sideVars>>
    /\ NoStopObserved

\* initializeClientVAD reaching "this.vadEnabled = true".
VadInitialized ==
    /\ ~vadEnabled
    /\ vadEnabled' = TRUE
    /\ UNCHANGED <<webAudioContext, isCallActive, stream>>
    /\ UNCHANGED <<playbackVars, envVars, arbVars, startVars>>
    /\ UNCHANGED <<vadVars, sideVars>>
    /\ NoStopObserved

\* startCall, successful run: previous resources are cleaned up, the Web
\* Audio context is created, the socket is (re)connected, the worklet set up.
startCall ==
    /\ ~isCallActive
    /\ isCallActive' = TRUE
    /\ stream' = TRUE
    /\ socketOpen' = TRUE
    /\ webAudioContext' = "running"
    /\ LET s0 == IF stream
                 THEN [Playback EXCEPT !.isAudioPlaying = FALSE,
                                       !.isAiSpeaking = FALSE]
                 ELSE Playback
           s1 == IF webAudioContext = "null"
                 THEN [s0 EXCEPT !.currentAudioTime = now, !.scheduledBuffers = <<>>]
                 ELSE s0
       IN Commit(s1)
    /\ UNCHANGED <<vadEnabled, now, nextChunk, pendingTimers, chunkLimit>>
    /\ UNCHANGED <<arbVars, startVars>>
    /\ UNCHANGED <<vadVars, sideVars>>
    /\ NoStopObserved

\* ------------------------------------------- inbound playback messages
RecvAiResponseChunk ==
    /\ socketOpen
    /\ nextChunk <= chunkLimit
    /\ nextChunk' = nextChunk + 1
    /\ LET s0 == [Playback EXCEPT !.audioQueue = Append(@, nextChunk),
                                  !.stage[nextChunk] = "queued"]
           s1 == IF ~s0.isAudioPlaying THEN playNextAudioChunk(s0) ELSE s0
       IN Commit(s1)
    /\ UNCHANGED <<now, socketOpen, pendingTimers, chunkLimit>>
    /\ UNCHANGED <<callVars, arbVars, startVars>>
    /\ UNCHANGED <<vadVars, sideVars>>
    /\ NoStopObserved

\* 'ai_response' and 'simple_greeting' with audio: playAudio.
RecvAiResponse ==
    /\ socketOpen
    /\ lastAudioStartTime # now
    /\ Commit([Playback EXCEPT !.lastAudioStartTime = now])
    /\ UNCHANGED <<callVars, envVars, arbVars, startVars>>
    /\ UNCHANGED <<vadVars, sideVars>>
    /\ NoStopObserved

RecvStopAudio ==
    /\ socketOpen
    /\ Commit(stopAudioPlayback(Playback))
    /\ UNCHANGED <<callVars, envVars, arbVars, startVars>>
    /\ UNCHANGED <<vadVars, sideVars>>
    /\ StopObserved

RecvClearAudioBuffers ==
    /\ socketOpen
    /\ Commit(clearAllAudioBuffers(Playback))
    /\ UNCHANGED <<callVars, envVars, arbVars, startVars>>
    /\ UNCHANGED <<vadVars, sideVars>>
    /\ StopObserved

\* 'session_refreshed' and 'session_auto_refreshed' (same assignments).
RecvSessionRefreshed ==
    /\ socketOpen
    /\ Commit([Playback EXCEPT !.audioQueue = <<>>, !.isAudioPlaying = FALSE])
    /\ isCallActive' = FALSE
    /\ UNCHANGED <<webAudioContext, vadEnabled, stream>>
    /\ UNCHANGED <<envVars, arbVars, startVars>>
    /\ UNCHANGED <<vadVars, sideVars>>
    /\ NoStopObserved

\* ------------------------------------------- sound lifecycle callbacks
\* playAudioChunkWebAudio resumes after decodeAudioData: source.start.
DecodeDone(i) ==
    /\ stage[i] = "decoding"
    /\ LET startTime == Max(now, currentAudioTime) IN
       /\ Commit([Playback EXCEPT !.currentAudioTime = startTime + ChunkMs,
                                  !.stage[i] = "playingWeb"])
       /\ lastStartTime' = startTime
    /\ lastStarted' = i
    /\ UNCHANGED <<callVars, envVars, arbVars>>
    /\ UNCHANGED <<vadVars, sideVars>>
    /\ NoStopObserved

\* decodeAudioData rejects: fall back to playAudioChunkTraditional.
DecodeFail(i) ==
    /\ stage[i] = "decoding"
    /\ Commit([Playback EXCEPT !.stage[i] = "starting"])
    /\ UNCHANGED <<callVars, envVars, arbVars, startVars>>
    /\ UNCHANGED <<vadVars, sideVars>>
    /\ NoStopObserved

\* audio.play() resolves: the Audio element is sounding.
AudioPlayResolved(i) ==
    /\ stage[i] = "starting"
    /\ Commit([Playback EXCEPT !.stage[i] = "playingTrad"])
    /\ lastStarted' = i
    /\ UNCHANGED lastStartTime
    /\ UNCHANGED <<callVars, envVars, arbVars>>
    /\ UNCHANGED <<vadVars, sideVars>>
    /\ NoStopObserved

\* source.onended
SourceEnded(i) ==
    /\ stage[i] = "playingWeb"
    /\ Commit(playNextAudioChunk([Playback EXCEPT !.stage[i] = "done",
                                                  !.isAudioPlaying = FALSE]))
    /\ UNCHANGED <<callVars, envVars, arbVars, startVars>>
    /\ UNCHANGED <<vadVars, sideVars>>
    /\ NoStopObserved

\* audio.onended: arms the 25 ms continuation timer.
AudioEnded(i) ==
    /\ stage[i] = "playingTrad"
    /\ Commit([Playback EXCEPT !.stage[i] = "done",
                               !.isAudioPlaying = FALSE,
                               !.isAiSpeaking = IF Len(audioQueue) = 0
                                                THEN FALSE ELSE @])
    /\ pendingTimers' = pendingTimers + 1
    /\ UNCHANGED <<now, socketOpen, nextChunk, chunkLimit>>
    /\ UNCHANGED <<callVars, arbVars, startVars>>
    /\ UNCHANGED <<vadVars, sideVars>>
    /\ NoStopObserved

\* setTimeout(() => this.playNextAudioChunk(), 25) fires.
ContinuationTimer ==
    /\ pendingTimers > 0
    /\ pendingTimers' = pendingTimers - 1
    /\ Commit(playNextAudioChunk(Playback))
    /\ UNCHANGED <<now, socketOpen, nextChunk, chunkLimit>>
    /\ UNCHANGED <<callVars, arbVars, startVars>>
    /\ UNCHANGED <<vadVars, sideVars>>
    /\ NoStopObserved

\* audio.onerror
AudioError(i) ==
    /\ stage[i] \in {"starting", "playingTrad"}
    /\ Commit(playNextAudioChunk(
         [Playback EXCEPT !.stage[i] = IF stage[i] = "starting"
                                       THEN "errored" ELSE "done",
                          !.isAudioPlaying = FALSE,
                          !.isAiSpeaking = FALSE]))
    /\ UNCHANGED <<callVars, envVars, arbVars, startVars>>
    /\ UNCHANGED <<vadVars, sideVars>>
    /\ NoStopObserved

\* A catch block that only logs: the scheduler is not restarted.
AudioPlayRejectedStalls(i) ==
    /\ stage[i] \in {"starting", "errored"}
    /\ Commit([Playback EXCEPT !.stage[i] = "done"])
    /\ UNCHANGED <<callVars, envVars, arbVars, startVars>>
    /\ UNCHANGED <<vadVars, sideVars>>
    /\ NoStopObserved

\* audio.play() rejects: the catch block of playAudioChunkTraditional.
AudioPlayRejected(i) ==
    /\ stage[i] \in {"starting", "errored"}
    /\ Commit(playNextAudioChunk([Playback EXCEPT !.stage[i] = "done",
                                                  !.isAudioPlaying = FALSE]))
    /\ UNCHANGED <<callVars, envVars, arbVars, startVars>>
    /\ UNCHANGED <<vadVars, sideVars>>
    /\ NoStopObserved

\* ------------------------------------------------- interrupt arbitration
\* clientVAD onVADUpdate callback (local VAD path).
FalsePositiveWindowMs == 2000

\* falsePositiveTimer holds the handle of the last timeout set, 0 for null;
\* a handle is the time its timeout is due. falsePositiveTimeouts are the
\* timeouts that are set and have neither fired nor been cleared.

\* Arming that does not clear the timeout set before.
StartTimerWithoutClear ==
    /\ falsePositiveTimer' = now + FalsePositiveWindowMs
    /\ falsePositiveTimeouts' =
          falsePositiveTimeouts \cup {now + FalsePositiveWindowMs}

\* SalesAgentApp.startFalsePositiveTimer.
startFalsePositiveTimer ==
    /\ falsePositiveTimer' = now + FalsePositiveWindowMs
    /\ falsePositiveTimeouts' =
          (IF falsePositiveTimer # 0
           THEN falsePositiveTimeouts \ {falsePositiveTimer}
           ELSE falsePositiveTimeouts) \cup {now + FalsePositiveWindowMs}

\* The same checks with a guard that also turns away an update arriving
\* exactly LocalFeedbackGuardMs after the chunk started.
onVADUpdateAcceptsStrictGuard(speechProb, speaking) ==
    LET currentTime == now
        timeSinceAudioStart == currentTime - lastAudioStartTime
    IN /\ isAiSpeaking /\ speaking
       /\ speechProb > InterruptThreshold
       /\ ~(timeSinceAudioStart <= LocalFeedbackGuardMs)
       /\ ~(currentTime - lastInterruptTime < LocalRateLimitMs)
       /\ ~(speechProb < InterruptThreshold)

\* The checks of the onVADUpdate callback, in the order the code makes
\* them: each failed check returns early.
onVADUpdateAccepts(speechProb, speaking) ==
    LET currentTime == now
        timeSinceAudioStart == currentTime - lastAudioStartTime
    IN /\ isAiSpeaking /\ speaking
       /\ speechProb > InterruptThreshold
       /\ ~(timeSinceAudioStart < LocalFeedbackGuardMs)
       /\ ~(currentTime - lastInterruptTime < LocalRateLimitMs)
       /\ ~(speechProb < InterruptThreshold)

\* The callback sending without looking at the socket: with the socket
\* gone socket.send throws after the stop and the rest does not run.
OnVADUpdateSendsUnchecked(speechProb, speaking) ==
    /\ vadEnabled /\ isCallActive
    /\ LET currentTime == now
           s1 == stopAudioPlayback(Playback)
       IN IF onVADUpdateAccepts(speechProb, speaking)
          THEN /\ lastInterruptTime' = currentTime
               /\ Commit(s1)
               /\ lastSent' = IF socketOpen
                              THEN [Snapshot("silero_vad_immediate", s1)
                                      EXCEPT !.speechProb = speechProb,
                                             !.timestamp = currentTime]
                              ELSE lastSent
               /\ IF socketOpen THEN startFalsePositiveTimer
                  ELSE UNCHANGED <<falsePositiveTimer,
                                   falsePositiveTimeouts>>
               /\ userHasSpoken' = FALSE
               /\ lastAccept' = Accepted("local")
               /\ UNCHANGED prevServerSpeech
               /\ StopObserved
          ELSE /\ UNCHANGED <<playbackVars, arbVars>>
               /\ NoStopObserved
    /\ UNCHANGED <<callVars, envVars, startVars>>
    /\ UNCHANGED <<vadVars, sideVars>>

onVADUpdate(speechProb, speaking) ==
    /\ vadEnabled /\ isCallActive
    /\ LET currentTime == now
           s1 == stopAudioPlayback(Playback)
       IN IF onVADUpdateAccepts(speechProb, speaking)
          THEN /\ lastInterruptTime' = currentTime
               /\ Commit(s1)
               /\ lastSent' = IF socketOpen
                              THEN [Snapshot("silero_vad_immediate", s1)
                                      EXCEPT !.speechProb = speechProb,
                                             !.timestamp = currentTime]
                              ELSE lastSent
               /\ startFalsePositiveTimer
               /\ userHasSpoken' = FALSE
               /\ lastAccept' = Accepted("local")
               /\ UNCHANGED prevServerSpeech
               /\ StopObserved
          ELSE /\ UNCHANGED <<playbackVars, arbVars>>
               /\ NoStopObserved
    /\ UNCHANGED <<callVars, envVars, startVars>>
    /\ UNCHANGED <<vadVars, sideVars>>

\* 'vad_status' message (server VAD fallback).
RecvVadStatusStampsFirst(speech_detected) ==
    /\ socketOpen
    /\ prevServerSpeech' = speech_detected
    /\ lastInterruptTime' = IF ~vadEnabled /\ isAiSpeaking /\ speech_detected
                            THEN now ELSE lastInterruptTime
    /\ UNCHANGED <<playbackVars, lastSent, lastAccept, falsePositiveTimer,
                   falsePositiveTimeouts,
                   userHasSpoken>>
    /\ NoStopObserved
    /\ UNCHANGED <<callVars, envVars, startVars>>
    /\ UNCHANGED <<vadVars, sideVars>>

RecvVadStatus(speech_detected) ==
    /\ socketOpen
    /\ prevServerSpeech' = speech_detected
    /\ LET timeSinceAudioStart == now - lastAudioStartTime
           accept == /\ ~vadEnabled /\ isAiSpeaking
                     /\ speech_detected
                     /\ ~(timeSinceAudioStart < ServerFeedbackGuardMs)
                     /\ ~(2 * (now - lastInterruptTime) < 3 * minInterruptInterval)
       IN IF accept
          THEN /\ lastInterruptTime' = now
               /\ lastSent' = Snapshot("server_vad_fallback", Playback)
               /\ Commit(stopAudioPlayback(Playback))
               /\ lastAccept' = Accepted("server")
               /\ UNCHANGED <<falsePositiveTimer, falsePositiveTimeouts,
                              userHasSpoken>>
               /\ StopObserved
          ELSE /\ UNCHANGED <<playbackVars, lastInterruptTime, lastSent,
                              lastAccept, falsePositiveTimer,
                              falsePositiveTimeouts,
                              userHasSpoken>>
               /\ NoStopObserved
    /\ UNCHANGED <<callVars, envVars, startVars>>
    /\ UNCHANGED <<vadVars, sideVars>>

\* worklet 'vadResult' message (worklet energy VAD fallback).
WorkletVadResultAnyTime(speechProb) ==
    /\ isCallActive
    /\ LET accept == /\ ~vadEnabled
                     /\ speechProb > WorkletInterruptProb
           s1 == stopAudioPlayback(Playback)
       IN IF accept
          THEN /\ Commit(s1)
               /\ lastSent' = IF socketOpen
                              THEN Snapshot("worklet_vad_fallback", s1)
                              ELSE lastSent
               /\ lastAccept' = Accepted("worklet")
               /\ UNCHANGED <<lastInterruptTime, falsePositiveTimer,
                              falsePositiveTimeouts, userHasSpoken,
                              prevServerSpeech>>
               /\ StopObserved
          ELSE /\ UNCHANGED <<playbackVars, arbVars>>
               /\ NoStopObserved
    /\ UNCHANGED <<callVars, envVars, startVars>>
    /\ UNCHANGED <<vadVars, sideVars>>

WorkletVadResult(speechProb) ==
    /\ isCallActive
    /\ LET accept == /\ ~vadEnabled
                     /\ speechProb > WorkletInterruptProb
                     /\ isAiSpeaking
           s1 == stopAudioPlayback(Playback)
       IN IF accept
          THEN /\ Commit(s1)
               /\ lastSent' = IF socketOpen
                              THEN Snapshot("worklet_vad_fallback", s1)
                              ELSE lastSent
               /\ lastAccept' = Accepted("worklet")
               /\ UNCHANGED <<lastInterruptTime, falsePositiveTimer,
                              falsePositiveTimeouts, userHasSpoken,
                              prevServerSpeech>>
               /\ StopObserved
          ELSE /\ UNCHANGED <<playbackVars, arbVars>>
               /\ NoStopObserved
    /\ UNCHANGED <<callVars, envVars, startVars>>
    /\ UNCHANGED <<vadVars, sideVars>>

\* A pending timeout fires: its callback calls requestSpeechResume when
\* userHasSpoken is false, and requestSpeechResume finds this.ws undefined
\* and sends nothing. The field keeps the handle of the timeout.
FalsePositiveTimerFired ==
    /\ \E d \in falsePositiveTimeouts :
          /\ now >= d
          /\ falsePositiveTimeouts' = falsePositiveTimeouts \ {d}
    /\ UNCHANGED <<lastInterruptTime, lastSent, lastAccept, prevServerSpeech,
                   userHasSpoken, falsePositiveTimer>>
    /\ UNCHANGED <<playbackVars, callVars, envVars, startVars>>
    /\ UNCHANGED <<vadVars, sideVars>>
    /\ NoStopObserved

\* 'transcription' message: the user did speak, the pending timeout is
\* cleared.
RecvTranscription ==
    /\ socketOpen
    /\ userHasSpoken' = TRUE
    /\ falsePositiveTimer' = 0
    /\ falsePositiveTimeouts' = IF falsePositiveTimer # 0
                                THEN falsePositiveTimeouts \ {falsePositiveTimer}
                                ELSE falsePositiveTimeouts
    /\ UNCHANGED <<lastInterruptTime, lastSent, lastAccept, prevServerSpeech>>
    /\ UNCHANGED <<playbackVars, callVars, envVars, startVars>>
    /\ UNCHANGED <<vadVars, sideVars>>
    /\ NoStopObserved

\* Arbitration over a healthy playback: chunks arrive and play, the three
\* VAD sources report, the clock advances.
ArbiterNext ==
    \/ Tick
    \/ SocketOpened
    \/ SocketLost
    \/ VadInitialized
    \/ startCall
    \/ RecvAiResponseChunk
    \/ RecvAiResponse
    \/ \E i \in ChunkIds : DecodeDone(i)
    \/ \E i \in ChunkIds : AudioPlayResolved(i)
    \/ \E i \in ChunkIds : SourceEnded(i)
    \/ \E i \in ChunkIds : AudioEnded(i)
    \/ ContinuationTimer
    \/ \E p \in LocalProbs, b \in BOOLEAN : onVADUpdate(p, b)
    \/ \E b \in BOOLEAN : RecvVadStatus(b)
    \/ \E p \in WorkletProbs : WorkletVadResult(p)

\* Arbitration during a call: the socket is the one startCall opened, so
\* chunks play through Web Audio.
InterruptNext ==
    \/ Tick
    \/ SocketLost
    \/ VadInitialized
    \/ startCall
    \/ RecvAiResponseChunk
    \/ \E i \in ChunkIds : DecodeDone(i)
    \/ \E i \in ChunkIds : SourceEnded(i)
    \/ \E p \in LocalProbs, b \in BOOLEAN : onVADUpdate(p, b)
    \/ \E b \in BOOLEAN : RecvVadStatus(b)
    \/ \E p \in WorkletProbs : WorkletVadResult(p)
    \/ FalsePositiveTimerFired

\* The playback scheduler under server-driven stops, flushes, session
\* refreshes and decode failures, at one instant of the clock.
PlaybackNext ==
    \/ SocketOpened
    \/ startCall
    \/ RecvAiResponseChunk
    \/ RecvStopAudio
    \/ RecvClearAudioBuffers
    \/ RecvSessionRefreshed
    \/ \E i \in ChunkIds : DecodeDone(i)
    \/ \E i \in ChunkIds : DecodeFail(i)
    \/ \E i \in ChunkIds : AudioPlayResolved(i)
    \/ \E i \in ChunkIds : SourceEnded(i)
    \/ \E i \in ChunkIds : AudioEnded(i)
    \/ ContinuationTimer
    \/ \E i \in ChunkIds : AudioError(i)
    \/ \E i \in ChunkIds : AudioPlayRejected(i)

\* Chunks left to play to completion: no stop, flush, teardown or failure.
GaplessNext ==
    \/ Tick
    \/ SocketOpened
    \/ startCall
    \/ RecvAiResponseChunk
    \/ \E i \in ChunkIds : DecodeDone(i)
    \/ \E i \in ChunkIds : AudioPlayResolved(i)
    \/ \E i \in ChunkIds : SourceEnded(i)
    \/ \E i \in ChunkIds : AudioEnded(i)
    \/ ContinuationTimer

\* ------------------------------------------------------------ detectors
windowSizeMs == 64
EnergyProbHigh == 80
EnergyProbLow == 20
ClientEnergyCut == 10

\* threshold / minSpeechDurationMs / minSilenceDurationMs as constructed:
\* the ClientVAD defaults and the values the application passes.
ClientConfigs ==
    { [threshold |-> 50, minSpeechDurationMs |-> 250, minSilenceDurationMs |-> 100],
      [threshold |-> 60, minSpeechDurationMs |-> 200, minSilenceDurationMs |-> 100] }
\* 'vadConfig' payloads: absent fields are 0 (falsy), else the app's values.
WorkletConfigs ==
    { [threshold |-> 0, minSpeechDurationMs |-> 0, minSilenceDurationMs |-> 0],
      [threshold |-> 50, minSpeechDurationMs |-> 400, minSilenceDurationMs |-> 300],
      [threshold |-> 50, minSpeechDurationMs |-> 250, minSilenceDurationMs |-> 0] }

FrameProbs == {40, 50, 90}
FrameEnergies == {5, 10, 20, 60}

VadInit ==
    /\ \E c \in ClientConfigs :
          /\ threshold = c.threshold
          /\ minSpeechDurationMs = c.minSpeechDurationMs
          /\ minSilenceDurationMs = c.minSilenceDurationMs
    /\ useEnergyVAD = FALSE
    /\ speechFrames = 0
    /\ silenceFrames = 0
    /\ isSpeaking = FALSE
    /\ energyThreshold = 10
    /\ wSpeechFrames = 0
    /\ wSilenceFrames = 0
    /\ minSpeechFrames = 4
    /\ minSilenceFrames = 2
    /\ currentIsSpeaking = FALSE
    /\ detector = "client"
    /\ fed = <<>>
    /\ speechStarts = {}
    /\ speechEnds = {}
    /\ lastStep = NoStep
    /\ currentSpeechProb = 0
    /\ speechStartTime = 0
    /\ silenceStartTime = 0
    /\ lastStateChange = 0
    /\ h = 0
    /\ inflight = {}
    /\ arrived = 0
    /\ audioBuffer = <<>>
    /\ framed = <<>>
    /\ pushed = 0

\* ClientVAD.applyTemporalLogic on the detector fields d; the returned
\* isSpeaking is the debounced value, the counters are written in place.
ApplyWithoutReset(d, speechProb) ==
    LET isSpeechFrame == speechProb > d.threshold
        sf == IF isSpeechFrame THEN d.speechFrames + 1 ELSE d.speechFrames
        nf == IF isSpeechFrame THEN d.silenceFrames ELSE d.silenceFrames + 1
        need == d.minSpeechDurationMs \div windowSizeMs
        quiet == d.minSilenceDurationMs \div windowSizeMs
        up == IF ~d.isSpeaking /\ sf >= need THEN TRUE ELSE d.isSpeaking
        res == IF up /\ nf >= quiet THEN FALSE ELSE up
    IN [speechFrames |-> sf, silenceFrames |-> nf, isSpeaking |-> res]

applyTemporalLogic(d, speechProb) ==
    LET isSpeechFrame == speechProb > d.threshold
        sf == IF isSpeechFrame THEN d.speechFrames + 1 ELSE 0
        nf == IF isSpeechFrame THEN 0 ELSE d.silenceFrames + 1
        need == d.minSpeechDurationMs \div windowSizeMs
        quiet == d.minSilenceDurationMs \div windowSizeMs
        up == IF ~d.isSpeaking /\ sf >= need THEN TRUE ELSE d.isSpeaking
        res == IF up /\ nf >= quiet THEN FALSE ELSE up
    IN [speechFrames |-> sf, silenceFrames |-> nf, isSpeaking |-> res]

ClientFields ==
    [threshold |-> threshold, minSpeechDurationMs |-> minSpeechDurationMs,
     minSilenceDurationMs |-> minSilenceDurationMs,
     speechFrames |-> speechFrames, silenceFrames |-> silenceFrames,
     isSpeaking |-> isSpeaking]

\* The part processWindow and processEnergyVAD share after the probability
\* is known: debounce, state change, edge callbacks.
ClientFrame(speechProb, inference) ==
    LET vadResult == applyTemporalLogic(ClientFields, speechProb)
        k == Len(fed) + 1 IN
    /\ speechFrames' = vadResult.speechFrames
    /\ silenceFrames' = vadResult.silenceFrames
    /\ isSpeaking' = vadResult.isSpeaking
    /\ speechStarts' = IF vadResult.isSpeaking /\ ~isSpeaking
                       THEN speechStarts \cup {k} ELSE speechStarts
    /\ speechEnds' = IF ~vadResult.isSpeaking /\ isSpeaking
                     THEN speechEnds \cup {k} ELSE speechEnds
    /\ fed' = Append(fed, speechProb)
    /\ lastStep' = [inference |-> inference,
                    callbacks |-> {"onVADUpdate"}
                        \cup (IF vadResult.isSpeaking /\ ~isSpeaking
                              THEN {"onSpeechStart"} ELSE {})
                        \cup (IF ~vadResult.isSpeaking /\ isSpeaking
                              THEN {"onSpeechEnd"} ELSE {}),
                    returned |-> [speechProb |-> speechProb,
                                  isSpeaking |-> vadResult.isSpeaking]]

\* ClientVAD.initialize falls back to the energy detector.
ClientFallsBack ==
    /\ detector = "client" /\ fed = <<>> /\ ~useEnergyVAD
    /\ useEnergyVAD' = TRUE
    /\ UNCHANGED <<threshold, minSpeechDurationMs, minSilenceDurationMs,
                   speechFrames, silenceFrames, isSpeaking,
                   energyThreshold, wSpeechFrames, wSilenceFrames,
                   minSpeechFrames, minSilenceFrames, currentIsSpeaking,
                   detector, fed, speechStarts, speechEnds>>
    /\ UNCHANGED <<lastStep, sileroVars>>
    /\ UNCHANGED <<appVars, sideVars>>

\* The audio goes to the worklet detector instead of ClientVAD.
UseWorklet ==
    /\ detector = "client" /\ fed = <<>> /\ ~useEnergyVAD
    /\ detector' = "worklet"
    /\ UNCHANGED <<threshold, minSpeechDurationMs, minSilenceDurationMs,
                   useEnergyVAD, speechFrames, silenceFrames, isSpeaking,
                   energyThreshold, wSpeechFrames, wSilenceFrames,
                   minSpeechFrames, minSilenceFrames, currentIsSpeaking,
                   fed, speechStarts, speechEnds>>
    /\ UNCHANGED <<lastStep, sileroVars>>
    /\ UNCHANGED <<appVars, sideVars>>

\* ClientVAD.processWindow with a successful inference.
processWindow(speechProb) ==
    /\ detector = "client" /\ ~useEnergyVAD
    /\ Len(fed) < MaxFrames
    /\ ClientFrame(speechProb, "ok")
    /\ UNCHANGED sileroVars
    /\ UNCHANGED <<threshold, minSpeechDurationMs, minSilenceDurationMs,
                   useEnergyVAD, energyThreshold, wSpeechFrames,
                   wSilenceFrames, minSpeechFrames, minSilenceFrames,
                   currentIsSpeaking, detector>>
    /\ UNCHANGED <<appVars, sideVars>>

\* ClientVAD.processEnergyVAD: the fallback engine, and the catch branch of
\* processWindow when session.run fails.
processEnergyVAD(energy) ==
    /\ detector = "client"
    /\ Len(fed) < MaxFrames
    /\ ClientFrame(IF energy > ClientEnergyCut THEN EnergyProbHigh ELSE EnergyProbLow,
                   IF useEnergyVAD THEN "none" ELSE "failed")
    /\ UNCHANGED sileroVars
    /\ UNCHANGED <<threshold, minSpeechDurationMs, minSilenceDurationMs,
                   useEnergyVAD, energyThreshold, wSpeechFrames,
                   wSilenceFrames, minSpeechFrames, minSilenceFrames,
                   currentIsSpeaking, detector>>
    /\ UNCHANGED <<appVars, sideVars>>

\* Chunks handed to processAudio in energy mode: samples in thousandths,
\* of any length, the empty chunk included.
EnergyChunks == {<<>>, <<0>>, <<20>>, <<20, 0>>, <<12, 0>>, <<0, 0, 20>>}

RECURSIVE SumSq(_)
SumSq(audioChunk) ==
    IF audioChunk = <<>> THEN 0
    ELSE audioChunk[1] * audioChunk[1] + SumSq(Tail(audioChunk))

\* The pseudo-probability processEnergyVAD computes for a chunk:
\* sqrt(sum / length) > 0.01 is sum > 0.01^2 * length; for the empty chunk
\* the energy is NaN, which is not greater than anything.
EnergyProb(audioChunk) ==
    IF Len(audioChunk) = 0 THEN EnergyProbLow
    ELSE IF SumSq(audioChunk) > ClientEnergyCut * ClientEnergyCut * Len(audioChunk)
         THEN EnergyProbHigh ELSE EnergyProbLow

\* The fallback without the temporal logic: the raw comparison of the
\* pseudo-probability with the threshold becomes the speaking state.
ProcessAudioUndebounced(audioChunk) ==
    /\ detector = "client" /\ useEnergyVAD
    /\ Len(fed) < MaxFrames
    /\ LET speechProb == EnergyProb(audioChunk)
           raw == speechProb > threshold
           k == Len(fed) + 1 IN
       /\ speechFrames' = IF raw THEN speechFrames + 1 ELSE 0
       /\ silenceFrames' = IF raw THEN 0 ELSE silenceFrames + 1
       /\ isSpeaking' = raw
       /\ speechStarts' = IF raw /\ ~isSpeaking
                          THEN speechStarts \cup {k} ELSE speechStarts
       /\ speechEnds' = IF ~raw /\ isSpeaking
                        THEN speechEnds \cup {k} ELSE speechEnds
       /\ fed' = Append(fed, speechProb)
       /\ lastStep' = [inference |-> "none", callbacks |-> {"onVADUpdate"},
                       returned |-> [speechProb |-> speechProb,
                                     isSpeaking |-> raw]]
    /\ UNCHANGED sileroVars
    /\ UNCHANGED <<threshold, minSpeechDurationMs, minSilenceDurationMs,
                   useEnergyVAD, energyThreshold, wSpeechFrames,
                   wSilenceFrames, minSpeechFrames, minSilenceFrames,
                   currentIsSpeaking, detector>>
    /\ UNCHANGED <<appVars, sideVars>>

\* ClientVAD.processAudio once initialize has fallen back: the whole chunk,
\* whatever its length, goes to processEnergyVAD as one frame.
processAudio(audioChunk) ==
    /\ detector = "client" /\ useEnergyVAD
    /\ Len(fed) < MaxFrames
    /\ ClientFrame(EnergyProb(audioChunk), "none")
    /\ UNCHANGED sileroVars
    /\ UNCHANGED <<threshold, minSpeechDurationMs, minSilenceDurationMs,
                   useEnergyVAD, energyThreshold, wSpeechFrames,
                   wSilenceFrames, minSpeechFrames, minSilenceFrames,
                   currentIsSpeaking, detector>>
    /\ UNCHANGED <<appVars, sideVars>>

\* worklet port.onmessage, type 'vadConfig'.  In this specification the
\* configuration is installed before the first frame.
WorkletVadConfig(data) ==
    /\ detector = "worklet" /\ fed = <<>>
    /\ energyThreshold' = IF data.threshold # 0 THEN data.threshold
                          ELSE energyThreshold
    /\ minSpeechFrames' = (IF data.minSpeechDurationMs # 0
                           THEN data.minSpeechDurationMs ELSE 250) \div 64
    /\ minSilenceFrames' = (IF data.minSilenceDurationMs # 0
                            THEN data.minSilenceDurationMs ELSE 125) \div 64
    /\ UNCHANGED <<threshold, minSpeechDurationMs, minSilenceDurationMs,
                   useEnergyVAD, speechFrames, silenceFrames, isSpeaking,
                   wSpeechFrames, wSilenceFrames, currentIsSpeaking,
                   detector, fed, speechStarts, speechEnds>>
    /\ UNCHANGED <<lastStep, sileroVars>>
    /\ UNCHANGED <<appVars, sideVars>>

\* A window whose energy equals the threshold taken for speech.
ProcessVADNotStrict(energy) ==
    LET isSpeechFrame == energy >= energyThreshold
        sf == IF isSpeechFrame THEN wSpeechFrames + 1 ELSE 0
        nf == IF isSpeechFrame THEN 0 ELSE wSilenceFrames + 1
        up == IF ~currentIsSpeaking /\ sf >= minSpeechFrames
              THEN TRUE ELSE currentIsSpeaking
        res == IF up /\ nf >= minSilenceFrames THEN FALSE ELSE up
    IN [speechFrames |-> sf, silenceFrames |-> nf, isSpeaking |-> res]

\* DownsampleTo16kPCM16Processor._processVAD on one 64 ms window.
processVAD(energy) ==
    LET isSpeechFrame == energy > energyThreshold
        sf == IF isSpeechFrame THEN wSpeechFrames + 1 ELSE 0
        nf == IF isSpeechFrame THEN 0 ELSE wSilenceFrames + 1
        up == IF ~currentIsSpeaking /\ sf >= minSpeechFrames
              THEN TRUE ELSE currentIsSpeaking
        res == IF up /\ nf >= minSilenceFrames THEN FALSE ELSE up
    IN [speechFrames |-> sf, silenceFrames |-> nf, isSpeaking |-> res]

WorkletFrame(energy) ==
    /\ detector = "worklet"
    /\ Len(fed) < MaxFrames
    /\ LET r == processVAD(energy)
           k == Len(fed) + 1 IN
       /\ wSpeechFrames' = r.speechFrames
       /\ wSilenceFrames' = r.silenceFrames
       /\ currentIsSpeaking' = r.isSpeaking
       /\ speechStarts' = IF r.isSpeaking /\ ~currentIsSpeaking
                          THEN speechStarts \cup {k} ELSE speechStarts
       /\ speechEnds' = IF ~r.isSpeaking /\ currentIsSpeaking
                        THEN speechEnds \cup {k} ELSE speechEnds
       /\ fed' = Append(fed, energy)
    /\ UNCHANGED <<threshold, minSpeechDurationMs, minSilenceDurationMs,
                   useEnergyVAD, speechFrames, silenceFrames, isSpeaking,
                   energyThreshold, minSpeechFrames, minSilenceFrames,
                   detector>>
    /\ lastStep' = NoStep
    /\ UNCHANGED sileroVars
    /\ UNCHANGED <<appVars, sideVars>>

\* An updateConfig that also restarts the runs.
UpdateConfigResetsCounters(config) ==
    /\ detector = "client"
    /\ threshold' = IF "threshold" \in DOMAIN config
                    THEN config.threshold ELSE threshold
    /\ minSpeechDurationMs' = IF "minSpeechDurationMs" \in DOMAIN config
                              THEN config.minSpeechDurationMs
                              ELSE minSpeechDurationMs
    /\ minSilenceDurationMs' = IF "minSilenceDurationMs" \in DOMAIN config
                               THEN config.minSilenceDurationMs
                               ELSE minSilenceDurationMs
    /\ speechFrames' = 0
    /\ silenceFrames' = 0
    /\ UNCHANGED <<useEnergyVAD, isSpeaking,
                   energyThreshold, wSpeechFrames, wSilenceFrames,
                   minSpeechFrames, minSilenceFrames, currentIsSpeaking,
                   detector, fed, speechStarts, speechEnds>>
    /\ UNCHANGED <<lastStep, sileroVars>>
    /\ UNCHANGED <<appVars, sideVars>>

\* ClientVAD.updateConfig: only the fields present in config are written.
updateConfig(config) ==
    /\ detector = "client"
    /\ threshold' = IF "threshold" \in DOMAIN config
                    THEN config.threshold ELSE threshold
    /\ minSpeechDurationMs' = IF "minSpeechDurationMs" \in DOMAIN config
                              THEN config.minSpeechDurationMs
                              ELSE minSpeechDurationMs
    /\ minSilenceDurationMs' = IF "minSilenceDurationMs" \in DOMAIN config
                               THEN config.minSilenceDurationMs
                               ELSE minSilenceDurationMs
    /\ UNCHANGED <<useEnergyVAD, speechFrames, silenceFrames, isSpeaking,
                   energyThreshold, wSpeechFrames, wSilenceFrames,
                   minSpeechFrames, minSilenceFrames, currentIsSpeaking,
                   detector, fed, speechStarts, speechEnds>>
    /\ UNCHANGED <<lastStep, sileroVars>>
    /\ UNCHANGED <<appVars, sideVars>>

\* ClientVAD.reset: counters and isSpeaking are cleared, no callback runs.
\* The observed frame history restarts with the detector.
reset ==
    /\ detector = "client"
    /\ fed # <<>>
    /\ speechFrames' = 0
    /\ silenceFrames' = 0
    /\ isSpeaking' = FALSE
    /\ fed' = <<>>
    /\ speechStarts' = {}
    /\ speechEnds' = {}
    /\ lastStep' = NoStep
    /\ UNCHANGED <<threshold, minSpeechDurationMs, minSilenceDurationMs,
                   useEnergyVAD, energyThreshold, wSpeechFrames,
                   wSilenceFrames, minSpeechFrames, minSilenceFrames,
                   currentIsSpeaking, detector>>
    /\ UNCHANGED sileroVars
    /\ UNCHANGED <<appVars, sideVars>>

\* Configurations a caller may install: durations shorter than one frame.
ShortConfigs ==
    { [minSpeechDurationMs |-> 50],
      [minSilenceDurationMs |-> 50],
      [threshold |-> 60, minSpeechDurationMs |-> 200,
       minSilenceDurationMs |-> 100] }
ShortWorkletConfigs ==
    { [threshold |-> 0, minSpeechDurationMs |-> 50, minSilenceDurationMs |-> 300],
      [threshold |-> 0, minSpeechDurationMs |-> 250, minSilenceDurationMs |-> 50] }

\* The frame detectors under reconfiguration and reset.
VadLifeNext ==
    \/ ClientFallsBack
    \/ UseWorklet
    \/ \E p \in FrameProbs : processWindow(p)
    \/ \E e \in FrameEnergies : processEnergyVAD(e)
    \/ \E c \in WorkletConfigs \cup ShortWorkletConfigs : WorkletVadConfig(c)
    \/ \E e \in FrameEnergies : WorkletFrame(e)
    \/ \E c \in ShortConfigs : updateConfig(c)
    \/ reset

VadNext ==
    \/ ClientFallsBack
    \/ UseWorklet
    \/ \E p \in FrameProbs : processWindow(p)
    \/ \E e \in FrameEnergies : processEnergyVAD(e)
    \/ \E a \in EnergyChunks : processAudio(a)
    \/ \E c \in WorkletConfigs : WorkletVadConfig(c)
    \/ \E e \in FrameEnergies : WorkletFrame(e)

\* --------------------------------------------------- SileroVADClient
frameSamples == 1536
sampleRate == 16000
frameDurationMs == (frameSamples * 1000) \div sampleRate

\* Options as constructed: the class defaults and the values the
\* application passes (vadConfig.sileroThreshold, minSpeechMs, minSilenceMs).
SileroConfigs ==
    { [threshold |-> 50, minSpeechDurationMs |-> 250, minSilenceDurationMs |-> 200],
      [threshold |-> 75, minSpeechDurationMs |-> 400, minSilenceDurationMs |-> 300] }

SileroFields ==
    [threshold |-> threshold, minSpeechDurationMs |-> minSpeechDurationMs,
     minSilenceDurationMs |-> minSilenceDurationMs,
     isSpeaking |-> isSpeaking, speechProb |-> currentSpeechProb,
     speechStartTime |-> speechStartTime,
     silenceStartTime |-> silenceStartTime,
     lastStateChange |-> lastStateChange, h |-> h]

\* SileroVADClient.updateVADState: the new fields and the callbacks invoked.
updateVADState(d, prob, currentTime) ==
    LET wasSpeaking == d.isSpeaking
        currentlySpeaking == prob > d.threshold
        d0 == [d EXCEPT !.speechProb = prob]
        d1 ==
          IF ~wasSpeaking /\ currentlySpeaking
          THEN IF d.speechStartTime = 0
               THEN [d0 EXCEPT !.speechStartTime = currentTime]
               ELSE IF currentTime - d.speechStartTime >= d.minSpeechDurationMs
                    THEN [d0 EXCEPT !.isSpeaking = TRUE, !.silenceStartTime = 0,
                                    !.lastStateChange = currentTime]
                    ELSE d0
          ELSE IF wasSpeaking /\ ~currentlySpeaking
          THEN IF d.silenceStartTime = 0
               THEN [d0 EXCEPT !.silenceStartTime = currentTime]
               ELSE IF currentTime - d.silenceStartTime >= d.minSilenceDurationMs
                    THEN [d0 EXCEPT !.isSpeaking = FALSE, !.speechStartTime = 0,
                                    !.lastStateChange = currentTime]
                    ELSE d0
          ELSE IF currentlySpeaking
          THEN [d0 EXCEPT !.silenceStartTime = 0]
          ELSE [d0 EXCEPT !.speechStartTime = 0]
    IN [state |-> d1,
        callbacks |-> {"onVADUpdate"}
            \cup (IF d1.isSpeaking /\ ~wasSpeaking THEN {"onSpeechStart"} ELSE {})
            \cup (IF ~d1.isSpeaking /\ wasSpeaking THEN {"onSpeechEnd"} ELSE {})]

\* SileroVADClient.processFrame once model.run has settled: res.ok tells
\* whether it resolved, res.speechProb and res.hn are its outputs.
ProcessFrameErrorAsSilence(d, res, currentTime) ==
    LET u == updateVADState(IF res.ok THEN [d EXCEPT !.h = res.hn] ELSE d,
                            IF res.ok THEN res.speechProb ELSE 0,
                            currentTime)
    IN [state |-> u.state, callbacks |-> u.callbacks,
        returned |-> [speechProb |-> u.state.speechProb,
                      isSpeaking |-> u.state.isSpeaking]]

processFrame(d, res, currentTime) ==
    IF res.ok
    THEN LET u == updateVADState([d EXCEPT !.h = res.hn], res.speechProb,
                                 currentTime)
         IN [state |-> u.state, callbacks |-> u.callbacks,
             returned |-> [speechProb |-> u.state.speechProb,
                           isSpeaking |-> u.state.isSpeaking]]
    ELSE [state |-> d, callbacks |-> {},
          returned |-> [speechProb |-> d.speechProb,
                        isSpeaking |-> d.isSpeaking]]

SileroUnchanged ==
    UNCHANGED <<useEnergyVAD, speechFrames, silenceFrames, energyThreshold,
                wSpeechFrames, wSilenceFrames, minSpeechFrames,
                minSilenceFrames, currentIsSpeaking>>

\* new SileroVADClient(options) and a successful initialize().
UseSilero(c) ==
    /\ detector = "client" /\ fed = <<>> /\ ~useEnergyVAD
    /\ pushed = 0
    /\ detector' = "silero"
    /\ threshold' = c.threshold
    /\ minSpeechDurationMs' = c.minSpeechDurationMs
    /\ minSilenceDurationMs' = c.minSilenceDurationMs
    /\ UNCHANGED <<isSpeaking, fed, speechStarts, speechEnds, lastStep>>
    /\ UNCHANGED sileroVars
    /\ SileroUnchanged
    /\ UNCHANGED <<playbackVars, callVars, arbVars, startVars, cancelled,
                   stopsInRow, socketOpen, nextChunk, pendingTimers,
                   chunkLimit, now>>
    /\ UNCHANGED sideVars

\* Samples move in blocks, WindowBlocks of them to a ClientVAD window;
\* FrameBlocks is the Silero frame in the same blocks.
windowSizeSamples == (sampleRate * windowSizeMs) \div 1000
BlockSamples == windowSizeSamples \div WindowBlocks
FrameBlocks == frameSamples \div BlockSamples

\* One frame lost a block on the way: the rest starts one block late.
TakeFrameDropsBlock(buffer, size) ==
    [frame |-> SubSeq(buffer, 1, size),
     rest |-> SubSeq(buffer, size + 2, Len(buffer))]

\* audioBuffer.splice(0, frameSamples), and slice(0, n) followed by
\* slice(n) in ClientVAD: the first frame and what stays buffered.
TakeFrame(buffer, size) ==
    [frame |-> SubSeq(buffer, 1, size),
     rest |-> SubSeq(buffer, size + 1, Len(buffer))]

\* One turn of the while loop of processAudio over the buffer: with a
\* complete frame buffered it is taken off and handed to the inference,
\* which reads the recurrent state hNow; otherwise the loop ends and the
\* call returns.  waiting are the inferences still awaited by other calls.
NextFrame(waiting, buffer, size, hNow) ==
    IF Len(buffer) >= size
    THEN LET t == TakeFrame(buffer, size) IN
         /\ audioBuffer' = t.rest
         /\ framed' = framed \o t.frame
         /\ arrived' = arrived + 1
         /\ inflight' = waiting \cup {[k |-> arrived + 1, hIn |-> hNow]}
    ELSE /\ audioBuffer' = buffer
         /\ UNCHANGED <<framed, arrived>>
         /\ inflight' = waiting

\* processAudio takes the next frame off audioBuffer and processFrame calls
\* model.run with the recurrent state it reads at that moment.  The port
\* handler is async, so a call can begin while another awaits its inference.
SileroFrameArrives ==
    /\ detector = "silero"
    /\ arrived < SileroFrames
    /\ Cardinality(inflight) < MaxOverlap
    /\ arrived' = arrived + 1
    /\ inflight' = inflight \cup {[k |-> arrived + 1, hIn |-> h]}
    /\ UNCHANGED <<threshold, minSpeechDurationMs, minSilenceDurationMs,
                   isSpeaking, detector, fed, speechStarts, speechEnds,
                   lastStep, currentSpeechProb, speechStartTime,
                   silenceStartTime, lastStateChange, h, audioBuffer,
                   framed, pushed>>
    /\ SileroUnchanged
    /\ UNCHANGED <<appVars, sideVars>>

\* model.run settles for the frame r: processFrame resumes.
SileroSettle(r, res, inference) ==
    LET out == processFrame(SileroFields, res, now)
        applied == Len(fed) + 1 IN
    /\ detector \in {"silero", "destroyed"}
    /\ NextFrame(inflight \ {r}, audioBuffer, FrameBlocks, out.state.h)
    /\ UNCHANGED pushed
    /\ isSpeaking' = out.state.isSpeaking
    /\ currentSpeechProb' = out.state.speechProb
    /\ speechStartTime' = out.state.speechStartTime
    /\ silenceStartTime' = out.state.silenceStartTime
    /\ lastStateChange' = out.state.lastStateChange
    /\ h' = out.state.h
    /\ lastStep' = [inference |-> inference, callbacks |-> out.callbacks,
                    returned |-> out.returned]
    /\ fed' = IF res.ok THEN Append(fed, res.speechProb) ELSE fed
    /\ speechStarts' = IF "onSpeechStart" \in out.callbacks
                       THEN speechStarts \cup {applied} ELSE speechStarts
    /\ speechEnds' = IF "onSpeechEnd" \in out.callbacks
                     THEN speechEnds \cup {applied} ELSE speechEnds
    /\ UNCHANGED <<threshold, minSpeechDurationMs, minSilenceDurationMs,
                   detector>>
    /\ SileroUnchanged
    /\ UNCHANGED <<appVars, sideVars>>

SileroInferenceDone(r, prob) ==
    /\ r \in inflight
    /\ SileroSettle(r, [ok |-> TRUE, speechProb |-> prob, hn |-> r.k], "ok")

SileroInferenceFailed(r) ==
    /\ r \in inflight
    /\ SileroSettle(r, [ok |-> FALSE, speechProb |-> 0, hn |-> 0], "failed")

\* reset written as if force were always false.
SileroResetFieldsAlwaysSoft(force) ==
    /\ isSpeaking' = FALSE
    /\ currentSpeechProb' = 0
    /\ speechStartTime' = 0
    /\ silenceStartTime' = 0
    /\ lastStateChange' = 0
    /\ fed' = <<>>
    /\ speechStarts' = {}
    /\ speechEnds' = {}
    /\ lastStep' = NoStep
    /\ audioBuffer' = <<>>
    /\ UNCHANGED <<threshold, minSpeechDurationMs, minSilenceDurationMs,
                   h, inflight, arrived, framed, pushed>>
    /\ SileroUnchanged

\* SileroVADClient.reset(force): the buffer, the probability, isSpeaking
\* and the timers are cleared and no callback runs; resetStates() zeroes
\* the recurrent state only when force is true.  The observed frame
\* history restarts with the detector.
SileroResetFields(force) ==
    /\ isSpeaking' = FALSE
    /\ currentSpeechProb' = 0
    /\ speechStartTime' = 0
    /\ silenceStartTime' = 0
    /\ lastStateChange' = 0
    /\ fed' = <<>>
    /\ speechStarts' = {}
    /\ speechEnds' = {}
    /\ lastStep' = NoStep
    /\ audioBuffer' = <<>>
    /\ h' = IF force THEN 0 ELSE h
    /\ UNCHANGED <<threshold, minSpeechDurationMs, minSilenceDurationMs,
                   inflight, arrived, framed, pushed>>
    /\ SileroUnchanged

\* reset() as the application calls it: the soft reset.
SileroReset ==
    /\ detector = "silero"
    /\ fed # <<>>
    /\ UNCHANGED detector
    /\ SileroResetFields(FALSE)
    /\ UNCHANGED <<appVars, sideVars>>

\* reset(force) called at any moment.
SileroResetCall(force) ==
    /\ detector = "silero"
    /\ UNCHANGED detector
    /\ SileroResetFields(force)
    /\ UNCHANGED <<appVars, sideVars>>

\* SileroVADClient.destroy(): the model is released, then reset().
SileroDestroy ==
    /\ detector = "silero"
    /\ detector' = "destroyed"
    /\ SileroResetFields(FALSE)
    /\ UNCHANGED <<appVars, sideVars>>

\* What stopCall and cleanupAudioResources do to the detector:
\* if (this.clientVAD) this.clientVAD.reset().
TeardownReset ==
    IF detector = "silero"
    THEN SileroResetFields(FALSE) /\ UNCHANGED detector
    ELSE UNCHANGED vadVars

\* SalesAgentApp.stopCall.
stopCall ==
    /\ isCallActive
    /\ stream' = FALSE
    /\ isCallActive' = FALSE
    /\ TeardownReset
    /\ UNCHANGED sideVars
    /\ UNCHANGED <<webAudioContext, vadEnabled>>
    /\ UNCHANGED <<playbackVars, envVars, arbVars, startVars>>
    /\ NoStopObserved

\* SalesAgentApp.cleanupAudioResources, as endCall runs it.
cleanupAudioResources ==
    /\ isCallActive
    /\ stream' = FALSE
    /\ isCallActive' = FALSE
    /\ TeardownReset
    /\ UNCHANGED sideVars
    /\ Commit([Playback EXCEPT !.isAudioPlaying = FALSE,
                               !.isAiSpeaking = FALSE])
    /\ UNCHANGED <<webAudioContext, vadEnabled>>
    /\ UNCHANGED <<envVars, arbVars, startVars>>
    /\ NoStopObserved

\* SileroVADClient.processAudio up to its first await: the chunk of n
\* blocks is appended to audioBuffer and the loop takes its first turn.
\* Without a complete frame the call returns the stored result.
Blocks(n) == [i \in 1..n |-> pushed + i]

SileroProcessAudio(n) ==
    /\ detector = "silero"
    /\ pushed + n <= MaxBlocks
    /\ Cardinality(inflight) < MaxOverlap
    /\ pushed' = pushed + n
    /\ NextFrame(inflight, audioBuffer \o Blocks(n), FrameBlocks, h)
    /\ lastStep' = IF Len(audioBuffer) + n >= FrameBlocks THEN lastStep
                   ELSE [inference |-> "none", callbacks |-> {},
                         returned |-> [speechProb |-> currentSpeechProb,
                                       isSpeaking |-> isSpeaking]]
    /\ UNCHANGED <<threshold, minSpeechDurationMs, minSilenceDurationMs,
                   isSpeaking, detector, fed, speechStarts, speechEnds,
                   currentSpeechProb, speechStartTime, silenceStartTime,
                   lastStateChange, h>>
    /\ SileroUnchanged
    /\ UNCHANGED <<appVars, sideVars>>

\* ClientVAD.processAudio on the model path up to its first await.
processAudioWindows(n) ==
    /\ detector = "client" /\ ~useEnergyVAD
    /\ pushed + n <= MaxBlocks
    /\ Cardinality(inflight) < MaxOverlap
    /\ pushed' = pushed + n
    /\ NextFrame(inflight, audioBuffer \o Blocks(n), WindowBlocks, 0)
    /\ lastStep' = IF Len(audioBuffer) + n >= WindowBlocks THEN lastStep
                   ELSE [inference |-> "none", callbacks |-> {},
                         returned |-> [speechProb |-> lastStep.returned.speechProb,
                                       isSpeaking |-> isSpeaking]]
    /\ UNCHANGED <<threshold, minSpeechDurationMs, minSilenceDurationMs,
                   useEnergyVAD, speechFrames, silenceFrames, isSpeaking,
                   energyThreshold, wSpeechFrames, wSilenceFrames,
                   minSpeechFrames, minSilenceFrames, currentIsSpeaking,
                   detector, fed, speechStarts, speechEnds>>
    /\ UNCHANGED <<currentSpeechProb, speechStartTime, silenceStartTime,
                   lastStateChange, h>>
    /\ UNCHANGED <<appVars, sideVars>>

\* session.run settles for the window r: processWindow finishes (through
\* processEnergyVAD when the inference failed) and the loop takes its next
\* turn.
ClientWindowSettles(r, speechProb, inference) ==
    /\ detector = "client"
    /\ ClientFrame(speechProb, inference)
    /\ NextFrame(inflight \ {r}, audioBuffer, WindowBlocks, 0)
    /\ UNCHANGED <<threshold, minSpeechDurationMs, minSilenceDurationMs,
                   useEnergyVAD, energyThreshold, wSpeechFrames,
                   wSilenceFrames, minSpeechFrames, minSilenceFrames,
                   currentIsSpeaking, detector>>
    /\ UNCHANGED <<currentSpeechProb, speechStartTime, silenceStartTime,
                   lastStateChange, h, pushed>>
    /\ UNCHANGED <<appVars, sideVars>>

ClientWindowDone(r, speechProb) ==
    /\ r \in inflight
    /\ ClientWindowSettles(r, speechProb, "ok")

ClientWindowFailed(r, energy) ==
    /\ r \in inflight
    /\ ClientWindowSettles(r, IF energy > ClientEnergyCut THEN EnergyProbHigh
                              ELSE EnergyProbLow, "failed")

\* SileroVADClient.updateConfig: only the fields present in config are
\* written to this.options.
SileroUpdateConfig(config) ==
    /\ detector = "silero"
    /\ threshold' = IF "threshold" \in DOMAIN config
                    THEN config.threshold ELSE threshold
    /\ minSpeechDurationMs' = IF "minSpeechDurationMs" \in DOMAIN config
                              THEN config.minSpeechDurationMs
                              ELSE minSpeechDurationMs
    /\ minSilenceDurationMs' = IF "minSilenceDurationMs" \in DOMAIN config
                               THEN config.minSilenceDurationMs
                               ELSE minSilenceDurationMs
    /\ UNCHANGED <<isSpeaking, detector, fed, speechStarts, speechEnds,
                   lastStep>>
    /\ UNCHANGED sileroVars
    /\ SileroUnchanged
    /\ UNCHANGED <<appVars, sideVars>>

\* RMS energies (thousandths) of chunks whose processing threw.
SileroEnergies == {5, 70, 120}

\* SileroVADClient.energyBasedVAD: min(1, max(0, (energy - 0.01) * 10)) and
\* its comparison with the threshold.
energyBasedVAD(d, energy) ==
    LET scaled == energy - 10
        speechProb == IF scaled < 0 THEN 0
                      ELSE IF scaled > 100 THEN 100 ELSE scaled
    IN [speechProb |-> speechProb, isSpeaking |-> speechProb > d.threshold]

\* processAudio when its try block throws outside processFrame (the spread
\* in audioBuffer.push(...audioChunk) for a chunk too long to spread): the
\* catch returns energyBasedVAD(audioChunk) and no field is written.
SileroEnergyFallback(energy) ==
    /\ detector = "silero"
    /\ lastStep' = [inference |-> "fallback", callbacks |-> {},
                    returned |-> energyBasedVAD(SileroFields, energy)]
    /\ UNCHANGED <<threshold, minSpeechDurationMs, minSilenceDurationMs,
                   isSpeaking, detector, fed, speechStarts, speechEnds>>
    /\ UNCHANGED sileroVars
    /\ SileroUnchanged
    /\ UNCHANGED <<appVars, sideVars>>

SileroFramesInFlight == {[k |-> k, hIn |-> j] : k \in 1..SileroFrames,
                                               j \in 0..SileroFrames}

\* SileroVADClient fed by the worklet's audio, on the wall clock.
SileroNext ==
    \/ Tick
    \/ \E c \in SileroConfigs : UseSilero(c)
    \/ SileroFrameArrives
    \/ \E r \in SileroFramesInFlight, p \in FrameProbs : SileroInferenceDone(r, p)
    \/ \E r \in SileroFramesInFlight : SileroInferenceFailed(r)
    \/ SileroReset
    \/ SileroDestroy

\* Either model-path detector fed chunks of any number of blocks by calls
\* that may overlap.
FramingInFlight == {[k |-> k, hIn |-> j] : k \in 1..MaxBlocks,
                                          j \in 0..MaxBlocks}

FramingNext ==
    \/ \E c \in SileroConfigs : UseSilero(c)
    \/ \E n \in 0..MaxBlocks : SileroProcessAudio(n)
    \/ \E r \in FramingInFlight, p \in FrameProbs : SileroInferenceDone(r, p)
    \/ \E r \in FramingInFlight : SileroInferenceFailed(r)
    \/ \E n \in 0..MaxBlocks : processAudioWindows(n)
    \/ \E r \in FramingInFlight, p \in FrameProbs : ClientWindowDone(r, p)
    \/ \E r \in FramingInFlight, e \in FrameEnergies : ClientWindowFailed(r, e)

\* Calls that start and end while the detector processes frames.
TeardownNext ==
    \/ \E c \in SileroConfigs : UseSilero(c)
    \/ startCall
    \/ SileroFrameArrives
    \/ \E r \in SileroFramesInFlight, p \in FrameProbs : SileroInferenceDone(r, p)
    \/ \E r \in SileroFramesInFlight : SileroInferenceFailed(r)
    \/ stopCall
    \/ cleanupAudioResources

\* SileroVADClient fed chunks and reset, softly or hard, at any moment.
ResetNext ==
    \/ Tick
    \/ \E c \in SileroConfigs : UseSilero(c)
    \/ \E n \in 0..MaxBlocks : SileroProcessAudio(n)
    \/ \E r \in FramingInFlight, p \in FrameProbs : SileroInferenceDone(r, p)
    \/ \E r \in FramingInFlight : SileroInferenceFailed(r)
    \/ \E force \in BOOLEAN : SileroResetCall(force)

\* Either model-path detector reconfigured while it processes audio.
ConfigNext ==
    \/ Tick
    \/ \E c \in SileroConfigs : UseSilero(c)
    \/ \E n \in 0..MaxBlocks : SileroProcessAudio(n)
    \/ \E r \in FramingInFlight, p \in FrameProbs : SileroInferenceDone(r, p)
    \/ \E c \in ShortConfigs : SileroUpdateConfig(c)
    \/ \E n \in 0..MaxBlocks : processAudioWindows(n)
    \/ \E r \in FramingInFlight, p \in FrameProbs : ClientWindowDone(r, p)
    \/ \E c \in ShortConfigs : updateConfig(c)

\* ---------------------------------------------- connection and reconnection
\* The sockets the app creates are numbered in the order of creation.
\* readyState[s] is "unused" before new WebSocket made s, then
\* "connecting", "open", "closing" once close() was called on it and
\* "closed" once its close event was delivered. socket is the number in
\* this.socket, 0 for null. reconnectTimers counts the pending reconnection
\* timeouts, checkPending the startCall runs waiting for their checkConnection
\* timeouts. scheduledSinceOpen counts the reconnection timeouts scheduled
\* since the last open event, scheduledInCall those scheduled since the
\* last open event or start of a call; lastClose names the branch the last
\* close handler took. staleTimers counts the pending reconnection timeouts
\* that were already pending when a cleanup or a logout last ran; replaced
\* holds the sockets connectWebSocket closed to put a new one in their
\* place and whose close event is still to come.
SocketIds == 1..MaxSockets
MaxReconnectAttempts == 5
\* The constructor does not assign reconnectAttempts: until an open event
\* or a cleanup writes 0 the field is undefined, and undefined < 5 is false.
Undefined == -1
CloseCodes == {1000, 1005, 1006}

\* The constructor of the worklet processor; sampleRate is the rate of the
\* AudioContext the node belongs to.
WorkletBuffersInit ==
    /\ wBuffer = <<>>
    /\ wVadBuffer = <<>>
    /\ consumed = 0
    /\ posts = <<>>
    /\ postedBefore = 0

WorkletInit ==
    /\ processorKind = "DownsampleTo16kPCM16Processor"
    /\ inputSampleRate = 48000
    /\ WorkletBuffersInit

DedupInit ==
    /\ recentAudioHashes = {}
    /\ transmitted = {}
    /\ lastChunk = [hash |-> 0, time |-> 0, sent |-> FALSE, n |-> 0]

CallInit ==
    /\ startPc = "idle"
    /\ stoppedInStart = FALSE
    /\ audioContext = FALSE
    /\ workletNode = FALSE
    /\ isRecording = FALSE

ConnInit ==
    /\ readyState = [s \in SocketIds |-> "unused"]
    /\ socket = 0
    /\ intentionalDisconnect = FALSE
    /\ isLoggedIn = FALSE
    /\ reconnectAttempts = Undefined
    /\ reconnectTimers = 0
    /\ checkPending = 0
    /\ scheduledSinceOpen = 0
    /\ scheduledInCall = 0
    /\ lastClose = "none"
    /\ staleTimers = 0
    /\ replaced = {}

\* The connection fields one handler run reads and writes, as one record.
Conn ==
    [readyState |-> readyState, socket |-> socket,
     intentionalDisconnect |-> intentionalDisconnect,
     reconnectAttempts |-> reconnectAttempts, isCallActive |-> isCallActive,
     staleTimers |-> staleTimers, replaced |-> replaced]

CommitConn(c) ==
    /\ readyState' = c.readyState
    /\ socket' = c.socket
    /\ intentionalDisconnect' = c.intentionalDisconnect
    /\ reconnectAttempts' = c.reconnectAttempts
    /\ isCallActive' = c.isCallActive
    /\ staleTimers' = c.staleTimers
    /\ replaced' = c.replaced
    /\ socketOpen' = (c.socket # 0 /\ c.readyState[c.socket] = "open")

Unused(c) == {s \in SocketIds : c.readyState[s] = "unused"}
CanConnect(c) == Unused(c) # {}
NewSocket(c) == CHOOSE s \in Unused(c) : \A t \in Unused(c) : s <= t

\* SalesAgentApp.connectWebSocket: nothing while the current socket is
\* connecting; an open socket is closed as intentional and dropped; a new
\* socket is created.
connectWebSocket(c) ==
    IF c.socket # 0 /\ c.readyState[c.socket] = "connecting"
    THEN c
    ELSE LET c1 == IF c.socket # 0 /\ c.readyState[c.socket] = "open"
                   THEN [c EXCEPT !.intentionalDisconnect = TRUE,
                                  !.readyState[c.socket] = "closing",
                                  !.socket = 0,
                                  !.replaced = @ \cup {c.socket}]
                   ELSE c
         IN [c1 EXCEPT !.readyState[NewSocket(c)] = "connecting",
                       !.socket = NewSocket(c)]

\* SalesAgentApp.cleanupCallResources: cleanupAudioResources ends the
\* call, a socket that is not closed is closed as intentional and dropped,
\* reconnectAttempts returns to 0.
cleanupCallResources(c) ==
    LET c1 == [c EXCEPT !.isCallActive = FALSE]
        c2 == IF c1.socket # 0 /\ c1.readyState[c1.socket] # "closed"
              THEN [c1 EXCEPT !.intentionalDisconnect = TRUE,
                              !.readyState[c1.socket] = "closing",
                              !.socket = 0]
              ELSE c1
    IN [c2 EXCEPT !.reconnectAttempts = 0, !.staleTimers = reconnectTimers]

\* What cleanupAudioResources does to the other fields.
CleanupAudio ==
    /\ stream' = FALSE
    /\ audioContext' = FALSE
    /\ workletNode' = FALSE
    /\ isRecording' = FALSE
    /\ UNCHANGED <<startPc, stoppedInStart>>
    /\ TeardownReset
    /\ Commit([Playback EXCEPT !.isAudioPlaying = FALSE,
                               !.isAiSpeaking = FALSE])

ConnOnly ==
    /\ UNCHANGED <<playbackVars, stream, vadVars, inCallVars>>

ConnFrame ==
    /\ UNCHANGED <<extraVars, workletVars, dedupVars>>
    /\ UNCHANGED <<webAudioContext, vadEnabled>>
    /\ UNCHANGED <<now, nextChunk, pendingTimers, chunkLimit>>
    /\ UNCHANGED <<arbVars, startVars>>

\* A successful login: the main app is shown and the socket is created.
login ==
    /\ ~isLoggedIn
    /\ CanConnect(Conn)
    /\ isLoggedIn' = TRUE
    /\ CommitConn(connectWebSocket(Conn))
    /\ UNCHANGED <<reconnectTimers, checkPending, scheduledSinceOpen,
                   scheduledInCall, lastClose>>
    /\ ConnOnly
    /\ ConnFrame
    /\ NoStopObserved

\* socket.onopen of the socket s.
SocketOnOpen(s) ==
    /\ readyState[s] = "connecting"
    /\ CommitConn([Conn EXCEPT !.readyState[s] = "open",
                               !.reconnectAttempts = 0])
    /\ scheduledSinceOpen' = 0
    /\ scheduledInCall' = 0
    /\ UNCHANGED <<isLoggedIn, reconnectTimers, checkPending, lastClose>>
    /\ ConnOnly
    /\ ConnFrame
    /\ NoStopObserved

\* A close handler that still retries when the counter stands at the limit.
SocketOnCloseRetriesAtLimit(s, code) ==
    /\ readyState[s] \in {"connecting", "open", "closing"}
    /\ LET c0 == [Conn EXCEPT !.readyState[s] = "closed",
                              !.replaced = @ \ {s}]
       IN IF intentionalDisconnect \/ ~isLoggedIn
          THEN /\ CommitConn(cleanupCallResources(
                                [c0 EXCEPT !.intentionalDisconnect = FALSE]))
               /\ CleanupAudio
               /\ lastClose' = "intentional"
               /\ UNCHANGED <<reconnectTimers, scheduledSinceOpen,
                              scheduledInCall>>
          ELSE IF /\ isCallActive
                  /\ reconnectAttempts # Undefined
                  /\ reconnectAttempts <= MaxReconnectAttempts
                  /\ code # 1000
          THEN /\ CommitConn([c0 EXCEPT !.reconnectAttempts = @ + 1])
               /\ reconnectTimers' = reconnectTimers + 1
               /\ scheduledSinceOpen' = scheduledSinceOpen + 1
               /\ scheduledInCall' = scheduledInCall + 1
               /\ lastClose' = "retry"
               /\ ConnOnly
          ELSE /\ CommitConn(cleanupCallResources(
                                [c0 EXCEPT !.reconnectAttempts = 0]))
               /\ CleanupAudio
               /\ lastClose' = "giveUp"
               /\ UNCHANGED <<reconnectTimers, scheduledSinceOpen,
                              scheduledInCall>>
    /\ UNCHANGED <<isLoggedIn, checkPending>>
    /\ ConnFrame
    /\ NoStopObserved

\* socket.onclose of the socket s with event.code = code, together with
\* the cleanupCallResources it starts: the assignments that follow the
\* call in the handler run before the cleanup resumes after its first
\* await.
SocketOnClose(s, code) ==
    /\ readyState[s] \in {"connecting", "open", "closing"}
    /\ LET c0 == [Conn EXCEPT !.readyState[s] = "closed",
                              !.replaced = @ \ {s}]
       IN IF intentionalDisconnect \/ ~isLoggedIn
          THEN /\ CommitConn(cleanupCallResources(
                                [c0 EXCEPT !.intentionalDisconnect = FALSE]))
               /\ CleanupAudio
               /\ lastClose' = "intentional"
               /\ UNCHANGED <<reconnectTimers, scheduledSinceOpen,
                              scheduledInCall>>
          ELSE IF /\ isCallActive
                  /\ reconnectAttempts # Undefined
                  /\ reconnectAttempts < MaxReconnectAttempts
                  /\ code # 1000
          THEN /\ CommitConn([c0 EXCEPT !.reconnectAttempts = @ + 1])
               /\ reconnectTimers' = reconnectTimers + 1
               /\ scheduledSinceOpen' = scheduledSinceOpen + 1
               /\ scheduledInCall' = scheduledInCall + 1
               /\ lastClose' = "retry"
               /\ ConnOnly
          ELSE /\ CommitConn(cleanupCallResources(
                                [c0 EXCEPT !.reconnectAttempts = 0]))
               /\ CleanupAudio
               /\ lastClose' = "giveUp"
               /\ UNCHANGED <<reconnectTimers, scheduledSinceOpen,
                              scheduledInCall>>
    /\ UNCHANGED <<isLoggedIn, checkPending>>
    /\ ConnFrame
    /\ NoStopObserved

\* A reconnection timeout fires: one that was pending at the last cleanup
\* or logout (stale), or one scheduled since.
ReconnectTimerFired ==
    /\ reconnectTimers > 0
    /\ isCallActive => CanConnect(Conn)
    /\ reconnectTimers' = reconnectTimers - 1
    /\ \E stale \in BOOLEAN :
          /\ stale => staleTimers > 0
          /\ ~stale => staleTimers < reconnectTimers
          /\ LET c0 == IF stale THEN [Conn EXCEPT !.staleTimers = @ - 1]
                       ELSE Conn
             IN CommitConn(IF isCallActive THEN connectWebSocket(c0) ELSE c0)
    /\ UNCHANGED <<isLoggedIn, checkPending, scheduledSinceOpen,
                   scheduledInCall, lastClose>>
    /\ ConnOnly
    /\ ConnFrame
    /\ NoStopObserved

\* SalesAgentApp.startCall up to the point where it waits: with the socket
\* open the call is running, otherwise connectWebSocket runs and the
\* checkConnection timeout is set.
startCallConnect ==
    /\ isLoggedIn /\ ~isCallActive
    /\ CanConnect(Conn)
    /\ LET c0 == IF stream THEN cleanupCallResources(Conn) ELSE Conn
           c1 == [c0 EXCEPT !.isCallActive = TRUE]
           isOpen == c1.socket # 0 /\ c1.readyState[c1.socket] = "open"
       IN /\ CommitConn(IF isOpen THEN c1 ELSE connectWebSocket(c1))
          /\ checkPending' = IF isOpen THEN checkPending
                             ELSE checkPending + 1
          /\ stream' = isOpen
    /\ UNCHANGED inCallVars
    /\ IF stream THEN TeardownReset ELSE UNCHANGED vadVars
    /\ Commit(IF stream THEN [Playback EXCEPT !.isAudioPlaying = FALSE,
                                              !.isAiSpeaking = FALSE]
              ELSE Playback)
    /\ scheduledInCall' = 0
    /\ UNCHANGED <<isLoggedIn, reconnectTimers, scheduledSinceOpen, lastClose>>
    /\ ConnFrame
    /\ NoStopObserved

\* The checkConnection timeout of startCall: with the socket open the call
\* goes on; with another readyState the promise is rejected and the catch
\* block ends the call and cleans up; with this.socket null the callback
\* throws and startCall never resumes.
checkConnection ==
    /\ checkPending > 0
    /\ checkPending' = checkPending - 1
    /\ IF socket = 0
       THEN /\ UNCHANGED <<readyState, socket, intentionalDisconnect,
                           reconnectAttempts, isCallActive, socketOpen,
                           staleTimers, replaced>>
            /\ ConnOnly
       ELSE IF readyState[socket] = "open"
       THEN /\ CommitConn([Conn EXCEPT !.isCallActive = TRUE])
            /\ stream' = TRUE
            /\ UNCHANGED <<playbackVars, vadVars, inCallVars>>
       ELSE /\ CommitConn(cleanupCallResources(Conn))
            /\ CleanupAudio
    /\ UNCHANGED <<isLoggedIn, reconnectTimers, scheduledSinceOpen,
                   scheduledInCall, lastClose>>
    /\ ConnFrame
    /\ NoStopObserved

\* SalesAgentApp.endCall when the session is not refreshed: the whole
\* cleanup runs.
endCall ==
    /\ isCallActive
    /\ CommitConn(cleanupCallResources(Conn))
    /\ CleanupAudio
    /\ UNCHANGED <<isLoggedIn, reconnectTimers, checkPending,
                   scheduledSinceOpen, scheduledInCall, lastClose>>
    /\ ConnFrame
    /\ NoStopObserved

\* SalesAgentApp.logout: the flag is set, the socket is closed but stays in
\* this.socket, stopCall ends an active call.
logout ==
    /\ isLoggedIn
    /\ isLoggedIn' = FALSE
    /\ LET c0 == [Conn EXCEPT !.intentionalDisconnect = TRUE]
           c1 == IF /\ c0.socket # 0
                    /\ c0.readyState[c0.socket] \in {"connecting", "open"}
                 THEN [c0 EXCEPT !.readyState[c0.socket] = "closing"]
                 ELSE c0
       IN CommitConn([c1 EXCEPT !.isCallActive = FALSE,
                                !.staleTimers = reconnectTimers])
    /\ IF isCallActive
       THEN /\ stream' = FALSE
            /\ audioContext' = FALSE
            /\ workletNode' = FALSE
            /\ isRecording' = FALSE
            /\ TeardownReset
       ELSE UNCHANGED <<stream, audioContext, workletNode, isRecording,
                        vadVars>>
    /\ UNCHANGED <<playbackVars, startPc, stoppedInStart>>
    /\ UNCHANGED <<reconnectTimers, checkPending, scheduledSinceOpen,
                   scheduledInCall, lastClose>>
    /\ ConnFrame
    /\ NoStopObserved

\* The connection of a logged-in user across calls, losses of the socket
\* and reconnections.
ReconnectNext ==
    \/ login
    \/ \E s \in SocketIds : SocketOnOpen(s)
    \/ \E s \in SocketIds, code \in CloseCodes : SocketOnClose(s, code)
    \/ ReconnectTimerFired
    \/ startCallConnect
    \/ checkConnection
    \/ endCall

\* ------------------------------------------------------- the other parts
ExtraInit ==
    /\ chunkDuration = 0
    /\ vadDue = FALSE

\* ------------------------------------------------ barge-in during a reply
\* A reply of any length: whenever a chunk ends the next one is waiting in
\* audioQueue. The detector delivers one result per frame, and the handlers
\* read the clock only through differences with lastAudioStartTime and
\* lastInterruptTime, so the clock is rebased after every frame: now stays
\* where it is and the two stamps move one frame into the past (a stamp
\* already LocalRateLimitMs old stays put).
FrameMs == (frameSamples * 1000) \div sampleRate
MinChunkSteps == 5
ChunkSteps == MinChunkSteps..MaxChunkSteps

\* The app as constructed; the duration of the chunks of the reply is
\* drawn here.
InitBargeIn ==
    /\ AppInit(ArbiterChunks) /\ VadInit /\ ConnInit /\ CallInit /\ WorkletInit /\ DedupInit
    /\ \E k \in ChunkSteps : chunkDuration = k * FrameMs
    /\ vadDue = FALSE

\* The call starts with the detector enabled and the first chunk of the
\* reply starts playing; an interrupt was accepted just before it (recent)
\* or never.
BargeInStart(recent) ==
    /\ ~isCallActive
    /\ isCallActive' = TRUE
    /\ vadEnabled' = TRUE
    /\ stream' = TRUE
    /\ socketOpen' = TRUE
    /\ isAudioPlaying' = TRUE
    /\ isAiSpeaking' = TRUE
    /\ lastAudioStartTime' = now
    /\ lastInterruptTime' = IF recent THEN now ELSE lastInterruptTime
    /\ UNCHANGED <<audioQueue, currentAudioTime, scheduledBuffers, stage,
                   webAudioContext, now, nextChunk, pendingTimers,
                   chunkLimit, lastSent, lastAccept, falsePositiveTimer,
                   falsePositiveTimeouts,
                   prevServerSpeech, userHasSpoken>>
    /\ UNCHANGED <<startVars, vadVars, connVars, inCallVars, workletVars,
                   dedupVars, extraVars>>
    /\ NoStopObserved

\* One frame of audio goes by.
FramePasses ==
    /\ isAiSpeaking /\ ~vadDue
    /\ now - lastAudioStartTime < chunkDuration
    /\ lastAudioStartTime' = lastAudioStartTime - FrameMs
    /\ lastInterruptTime' = IF now - lastInterruptTime >= LocalRateLimitMs
                            THEN lastInterruptTime
                            ELSE lastInterruptTime - FrameMs
    /\ vadDue' = TRUE
    /\ UNCHANGED <<audioQueue, isAudioPlaying, isAiSpeaking, currentAudioTime,
                   scheduledBuffers, stage>>
    /\ UNCHANGED <<callVars, envVars, startVars, lastSent, lastAccept,
                   falsePositiveTimer, falsePositiveTimeouts,
                   prevServerSpeech, userHasSpoken>>
    /\ UNCHANGED <<vadVars, connVars, inCallVars, workletVars, dedupVars,
                   chunkDuration>>
    /\ NoStopObserved

\* The chunk being played ends and playNextAudioChunk starts the next one
\* of the reply: isAudioPlaying and isAiSpeaking are set again and
\* lastAudioStartTime is stamped.
NextChunkOfReply ==
    /\ isAiSpeaking /\ ~vadDue
    /\ now - lastAudioStartTime >= chunkDuration
    /\ isAudioPlaying' = TRUE
    /\ isAiSpeaking' = TRUE
    /\ lastAudioStartTime' = now
    /\ UNCHANGED <<audioQueue, currentAudioTime, scheduledBuffers, stage>>
    /\ UNCHANGED <<callVars, envVars, arbVars, startVars>>
    /\ UNCHANGED <<vadVars, connVars, inCallVars, workletVars, dedupVars,
                   extraVars>>
    /\ NoStopObserved

\* The onVADUpdate callback for the frame that has just gone by, the
\* detector reporting speech.
VADUpdateOfFrame(speechProb) ==
    /\ vadEnabled /\ isCallActive
    /\ vadDue
    /\ vadDue' = FALSE
    /\ LET currentTime == now
           s1 == stopAudioPlayback(Playback)
       IN IF onVADUpdateAccepts(speechProb, TRUE)
          THEN /\ lastInterruptTime' = currentTime
               /\ userHasSpoken' = FALSE
               /\ Commit(s1)
               /\ lastSent' = IF socketOpen
                              THEN [Snapshot("silero_vad_immediate", s1)
                                      EXCEPT !.speechProb = speechProb,
                                             !.timestamp = currentTime]
                              ELSE lastSent
               /\ startFalsePositiveTimer
               /\ lastAccept' = Accepted("local")
               /\ UNCHANGED prevServerSpeech
               /\ StopObserved
          ELSE /\ UNCHANGED <<playbackVars, arbVars>>
               /\ NoStopObserved
    /\ UNCHANGED <<callVars, envVars, startVars>>
    /\ UNCHANGED <<vadVars, connVars, inCallVars, workletVars, dedupVars,
                   chunkDuration>>

SpeechProbs == {p \in LocalProbs : p > InterruptThreshold}

BargeInNext ==
    \/ \E recent \in BOOLEAN : BargeInStart(recent)
    \/ FramePasses
    \/ NextChunkOfReply
    \/ \E p \in SpeechProbs : VADUpdateOfFrame(p)

\* Audio keeps flowing, chunks end when their duration is over, the
\* detector reports every frame.
BargeInFairness ==
    /\ WF_vars(\E recent \in BOOLEAN : BargeInStart(recent))
    /\ WF_vars(FramePasses)
    /\ WF_vars(NextChunkOfReply)
    /\ WF_vars(\E p \in SpeechProbs : VADUpdateOfFrame(p))

\* Local interrupts, their false-positive timeout and the transcriptions
\* that clear it.
FalsePositiveNext ==
    \/ Tick
    \/ SocketLost
    \/ VadInitialized
    \/ startCall
    \/ RecvAiResponseChunk
    \/ \E i \in ChunkIds : DecodeDone(i)
    \/ \E i \in ChunkIds : SourceEnded(i)
    \/ \E p \in LocalProbs, b \in BOOLEAN : onVADUpdate(p, b)
    \/ RecvTranscription
    \/ FalsePositiveTimerFired

\* The playback scheduler when chunks fail to decode or to play and nothing
\* stops it.
DecodeNext ==
    \/ SocketOpened
    \/ startCall
    \/ RecvAiResponseChunk
    \/ \E i \in ChunkIds : DecodeDone(i)
    \/ \E i \in ChunkIds : DecodeFail(i)
    \/ \E i \in ChunkIds : AudioPlayResolved(i)
    \/ \E i \in ChunkIds : AudioPlayRejected(i)
    \/ \E i \in ChunkIds : AudioError(i)
    \/ \E i \in ChunkIds : SourceEnded(i)
    \/ \E i \in ChunkIds : AudioEnded(i)
    \/ ContinuationTimer

\* Every promise settles, every sound that started ends or fails, every
\* timer fires.
DecodeFairness ==
    /\ \A i \in ChunkIds :
          /\ WF_vars(DecodeDone(i) \/ DecodeFail(i))
          /\ WF_vars(AudioPlayResolved(i) \/ AudioPlayRejected(i)
                        \/ AudioError(i))
          /\ WF_vars(SourceEnded(i))
          /\ WF_vars(AudioEnded(i) \/ AudioError(i))
    /\ WF_vars(ContinuationTimer)

\* SileroVADClient when a processAudio call can also end in its catch.
SileroEnergyNext ==
    \/ SileroNext
    \/ \E e \in SileroEnergies : SileroEnergyFallback(e)

\* ------------------------------------------------------- specifications
Init == AppInit(ArbiterChunks) /\ VadInit /\ ConnInit /\ CallInit /\ WorkletInit
    /\ DedupInit /\ ExtraInit
InitPlayback == AppInit(MaxChunks) /\ VadInit /\ ConnInit /\ CallInit /\ WorkletInit
    /\ DedupInit /\ ExtraInit
Spec == Init /\ [][ArbiterNext]_vars
SpecPlayback == InitPlayback /\ [][PlaybackNext]_vars
SpecGapless == InitPlayback /\ [][GaplessNext]_vars
SpecInterrupt == Init /\ [][InterruptNext]_vars
SpecVad == Init /\ [][VadNext]_vars
SpecVadLife == Init /\ [][VadLifeNext]_vars
SpecSilero == Init /\ [][SileroNext]_vars
SpecFraming == Init /\ [][FramingNext]_vars
SpecTeardown == Init /\ [][TeardownNext]_vars
SpecReset == Init /\ [][ResetNext]_vars
SpecConfig == Init /\ [][ConfigNext]_vars
SpecFalsePositive == Init /\ [][FalsePositiveNext]_vars
SpecBargeIn == InitBargeIn /\ [][BargeInNext]_vars /\ BargeInFairness
SpecReconnect == Init /\ [][ReconnectNext]_vars

\* ------------------------------------------------ the worklet's process()
\* Samples are in thousandths of full scale. The input stream is fixed:
\* Sample(i) is its i-th sample, loud and quiet stretches of 4000 samples,
\* with values beyond full scale in the loud ones.
ProcessorKinds == {"AudioProcessor", "DownsampleTo16kPCM16Processor"}
SampleRates == {16000, 44100, 48000}
BlockSizes == {0, 128, 4801, 9700}
outputSampleRate == 16000

Envelope(i) == IF (i \div 4000) % 2 = 0 THEN 100 ELSE 1
Sample(i) == ((((i * 7919) % 2401) - 1200) * Envelope(i)) \div 100

chunkSize == IF processorKind = "AudioProcessor" THEN 4800 ELSE 1280
vadWindowSize == IF processorKind = "AudioProcessor" THEN 3072 ELSE 1024

\* Math.floor(_chunkSize * (_inputSampleRate / _outputSampleRate)) in the
\* resampling processor (the quotient of the integers is what the floating
\* point expression yields at these rates), _chunkSize in the other.
requiredInputLength ==
    IF processorKind = "AudioProcessor" THEN chunkSize
    ELSE (chunkSize * inputSampleRate) \div outputSampleRate

\* DownsampleTo16kPCM16Processor._downsampleBuffer: linear interpolation at
\* the positions i * ratio, the result kept to the thousandth.
downsampleBuffer(buffer, inSampleRate, outSampleRate) ==
    IF inSampleRate = outSampleRate THEN buffer
    ELSE LET newLength == (Len(buffer) * outSampleRate) \div inSampleRate
         IN [k \in 1..newLength |->
               LET srcIndexFloor == ((k - 1) * inSampleRate) \div outSampleRate
                   srcIndexCeil == IF srcIndexFloor + 1 < Len(buffer) - 1
                                   THEN srcIndexFloor + 1
                                   ELSE Len(buffer) - 1
                   fraction == ((k - 1) * inSampleRate) % outSampleRate
               IN (buffer[srcIndexFloor + 1] * (outSampleRate - fraction)
                   + buffer[srcIndexCeil + 1] * fraction) \div outSampleRate]

\* The conversion of one sample to PCM16: clamped to full scale, scaled by
\* 32768 below zero and 32767 above, the fraction dropped by Int16Array.
toPCM16(sample) ==
    LET clamped == IF sample < -1000 THEN -1000
                   ELSE IF sample > 1000 THEN 1000 ELSE sample
    IN IF clamped < 0 THEN -(((-clamped) * 32768) \div 1000)
       ELSE (clamped * 32767) \div 1000

RECURSIVE SumSquares(_, _, _)
SumSquares(s, lo, hi) ==
    IF lo > hi THEN 0
    ELSE IF lo = hi THEN s[lo] * s[lo]
    ELSE LET mid == (lo + hi) \div 2
         IN SumSquares(s, lo, mid) + SumSquares(s, mid + 1, hi)

\* The energy _processVAD computes, sqrt(sum of squares / length), rounded
\* up to the thousandth: for a threshold in thousandths energy > threshold
\* has the same truth value.
WindowEnergy(audioChunk) ==
    LET meanSquare == (SumSquares(audioChunk, 1, Len(audioChunk))
                       + Len(audioChunk) - 1) \div Len(audioChunk)
    IN CHOOSE e \in 0..1201 :
          /\ e * e >= meanSquare
          /\ e = 0 \/ (e - 1) * (e - 1) < meanSquare

\* _processVAD on the counters st instead of the fields, for the windows
\* one process() call goes through.
processVADFrom(st, energy) ==
    LET isSpeechFrame == energy > energyThreshold
        sf == IF isSpeechFrame THEN st.speechFrames + 1 ELSE 0
        nf == IF isSpeechFrame THEN 0 ELSE st.silenceFrames + 1
        up == IF ~st.isSpeaking /\ sf >= minSpeechFrames
              THEN TRUE ELSE st.isSpeaking
        res == IF up /\ nf >= minSilenceFrames THEN FALSE ELSE up
    IN [speechFrames |-> sf, silenceFrames |-> nf, isSpeaking |-> res]

\* The first while loop of process(): whole windows leave _vadBuffer and go
\* to _processVAD, downsampled first in the resampling processor.
RECURSIVE DrainVadBuffer(_, _)
DrainVadBuffer(vadBuffer, st) ==
    IF Len(vadBuffer) >= vadWindowSize
    THEN LET vadChunk == SubSeq(vadBuffer, 1, vadWindowSize)
             rest == SubSeq(vadBuffer, vadWindowSize + 1, Len(vadBuffer))
             analysed == IF processorKind = "AudioProcessor" THEN vadChunk
                         ELSE downsampleBuffer(vadChunk, inputSampleRate,
                                               outputSampleRate)
         IN DrainVadBuffer(rest, processVADFrom(st, WindowEnergy(analysed)))
    ELSE [vadBuffer |-> vadBuffer, vad |-> st]

\* A slice that keeps the last sample of the chunk in the buffer.
BufferAfterChunkKeepsLast(buffer) ==
    SubSeq(buffer, requiredInputLength, Len(buffer))

\* this._buffer.slice(requiredInputLength).
BufferAfterChunk(buffer) ==
    SubSeq(buffer, requiredInputLength + 1, Len(buffer))

\* The second while loop of process(): each chunk of requiredInputLength
\* samples leaves _buffer, is downsampled in the resampling processor,
\* converted to PCM16 and posted.
RECURSIVE DrainBuffer(_, _)
DrainBuffer(buffer, posted) ==
    IF Len(buffer) >= requiredInputLength
    THEN LET chunk == SubSeq(buffer, 1, requiredInputLength)
             downsampled == IF processorKind = "AudioProcessor" THEN chunk
                            ELSE downsampleBuffer(chunk, inputSampleRate,
                                                  outputSampleRate)
             pcm16 == [k \in 1..Len(downsampled) |-> toPCM16(downsampled[k])]
         IN DrainBuffer(BufferAfterChunk(buffer), Append(posted, pcm16))
    ELSE [buffer |-> buffer, posted |-> posted]

\* process(inputs) with a channel of n samples, the next n of the stream.
process(n) ==
    /\ consumed + n <= MaxSamples
    /\ LET inputChannel == [j \in 1..n |-> Sample(consumed + j)]
           v == DrainVadBuffer(wVadBuffer \o inputChannel,
                               [speechFrames |-> wSpeechFrames,
                                silenceFrames |-> wSilenceFrames,
                                isSpeaking |-> currentIsSpeaking])
           b == DrainBuffer(wBuffer \o inputChannel, <<>>)
       IN /\ wVadBuffer' = v.vadBuffer
          /\ wSpeechFrames' = v.vad.speechFrames
          /\ wSilenceFrames' = v.vad.silenceFrames
          /\ currentIsSpeaking' = v.vad.isSpeaking
          /\ wBuffer' = b.buffer
          /\ posts' = b.posted
    /\ postedBefore' = postedBefore + Len(posts)
    /\ consumed' = consumed + n
    /\ UNCHANGED <<processorKind, inputSampleRate>>
    /\ UNCHANGED <<threshold, minSpeechDurationMs, minSilenceDurationMs,
                   useEnergyVAD, speechFrames, silenceFrames, isSpeaking,
                   energyThreshold, minSpeechFrames, minSilenceFrames,
                   detector, fed, speechStarts, speechEnds>>
    /\ UNCHANGED <<lastStep, sileroVars>>
    /\ UNCHANGED <<appVars, connVars, extraVars, inCallVars, dedupVars>>

InitWorklet ==
    /\ AppInit(ArbiterChunks) /\ VadInit /\ ConnInit /\ CallInit
    /\ DedupInit /\ ExtraInit
    /\ processorKind \in ProcessorKinds
    /\ inputSampleRate \in
          IF processorKind = "AudioProcessor" THEN {48000} ELSE SampleRates
    /\ WorkletBuffersInit

WorkletNext == \E n \in BlockSizes : process(n)

SpecWorklet == InitWorklet /\ [][WorkletNext]_vars

\* ------------------------------------------ outbound audio de-duplication
DuplicateWindowMs == 500
HashRetentionMs == 2000

\* One round of getAudioHash, hash = ((hash << 5) - hash + byte) | 0, on
\* the 32-bit pattern hash = <<high 16 bits, low 16 bits>>.
HashRound(hash, byte) ==
    LET low == hash[2] * 31 + byte
    IN <<(hash[1] * 31 + (low \div 65536)) % 65536, low % 65536>>

RECURSIVE HashRounds(_, _, _)
HashRounds(byteArray, i, hash) ==
    IF i > Len(byteArray) THEN hash
    ELSE HashRounds(byteArray, i + 1, HashRound(hash, byteArray[i]))

\* SalesAgentApp.getAudioHash: the pattern read as a signed 32-bit integer.
getAudioHash(byteArray) ==
    LET hash == HashRounds(byteArray, 1, <<0, 0>>)
    IN IF hash[1] >= 32768 THEN (hash[1] - 65536) * 65536 + hash[2]
       ELSE hash[1] * 65536 + hash[2]

\* Chunks as byte arrays: two with the same hash, one whose hash wraps
\* around 32 bits.
AudioChunks ==
    { <<0, 31>>, <<1, 0>>, <<255, 255, 255, 255, 255, 255, 255, 255>> }

\* A check that also takes a chunk sent exactly 500 ms ago for a duplicate.
RecentlySentInclusive(audioHash) ==
    \E e \in recentAudioHashes :
       e.hash = audioHash /\ now - e.time <= DuplicateWindowMs

\* recentAudioHashes.has(audioHash) && now - recentAudioHashes.get(audioHash)
\* < 500.
recentlySent(audioHash) ==
    \E e \in recentAudioHashes :
       e.hash = audioHash /\ now - e.time < DuplicateWindowMs

\* SalesAgentApp.sendRealTimeAudioChunk. transmitted keeps, for every hash,
\* the time of the last chunk with that hash that went to socket.send.
sendRealTimeAudioChunk(pcm16Buffer) ==
    /\ LET audioHash == getAudioHash(pcm16Buffer)
           entry == [hash |-> audioHash, time |-> now]
           withEntry == {e \in recentAudioHashes : e.hash # audioHash}
                           \cup {entry}
           sends == socketOpen /\ ~recentlySent(audioHash)
       IN /\ recentAudioHashes' =
                IF sends
                THEN {e \in withEntry : ~(now - e.time > HashRetentionMs)}
                ELSE recentAudioHashes
          /\ transmitted' =
                IF sends
                THEN {e \in transmitted : e.hash # audioHash} \cup {entry}
                ELSE transmitted
          /\ lastChunk' = [hash |-> audioHash, time |-> now, sent |-> sends,
                           n |-> 1 - lastChunk.n]
    /\ UNCHANGED <<now, socketOpen, nextChunk, pendingTimers, chunkLimit>>
    /\ UNCHANGED <<playbackVars, callVars, arbVars, startVars>>
    /\ UNCHANGED <<vadVars, connVars, extraVars, inCallVars, workletVars>>
    /\ NoStopObserved

\* Time passes between two chunks.
AudioTick ==
    /\ now + AudioTickMs <= MaxTime
    /\ now' = now + AudioTickMs
    /\ UNCHANGED <<socketOpen, nextChunk, pendingTimers, chunkLimit>>
    /\ UNCHANGED <<playbackVars, callVars, arbVars, startVars,
                   cancelled, stopsInRow>>
    /\ UNCHANGED <<vadVars, sideVars>>

DedupNext ==
    \/ AudioTick
    \/ SocketOpened
    \/ SocketLost
    \/ \E c \in AudioChunks : sendRealTimeAudioChunk(c)

SpecDedup == Init /\ [][DedupNext]_vars

\* ------------------------------------------- startCall across its awaits
ConnRest ==
    UNCHANGED <<isLoggedIn, reconnectTimers, checkPending, scheduledSinceOpen,
                scheduledInCall, lastClose>>

CallFrame ==
    /\ UNCHANGED <<extraVars, workletVars, dedupVars>>
    /\ UNCHANGED <<vadEnabled, now, nextChunk, pendingTimers, chunkLimit>>
    /\ UNCHANGED <<arbVars, startVars>>

\* toggleCall with no call active: startCall up to its await of
\* initializeWebAudio. Resources left from a previous call are cleaned up,
\* isCallActive is set, the Web Audio context is created.
startCallBegin ==
    /\ isLoggedIn /\ ~isCallActive /\ startPc = "idle"
    /\ LET leftover == stream \/ audioContext
           c0 == IF leftover THEN cleanupCallResources(Conn) ELSE Conn
           s0 == IF leftover
                 THEN [Playback EXCEPT !.isAudioPlaying = FALSE,
                                       !.isAiSpeaking = FALSE]
                 ELSE Playback
           s1 == IF webAudioContext = "null"
                 THEN [s0 EXCEPT !.currentAudioTime = now,
                                 !.scheduledBuffers = <<>>]
                 ELSE s0
       IN /\ CommitConn([c0 EXCEPT !.isCallActive = TRUE])
          /\ Commit(s1)
          /\ IF leftover
             THEN /\ stream' = FALSE
                  /\ audioContext' = FALSE
                  /\ workletNode' = FALSE
                  /\ isRecording' = FALSE
                  /\ TeardownReset
             ELSE UNCHANGED <<stream, audioContext, workletNode, isRecording,
                              vadVars>>
    /\ webAudioContext' = "running"
    /\ startPc' = "initializeWebAudio"
    /\ stoppedInStart' = FALSE
    /\ ConnRest
    /\ CallFrame
    /\ NoStopObserved

\* startCall resumes after initializeWebAudio: with the socket open it asks
\* for the microphone, otherwise connectWebSocket runs and the
\* checkConnection timeout is set.
startCallAfterWebAudio ==
    /\ startPc = "initializeWebAudio"
    /\ CanConnect(Conn)
    /\ LET isOpen == socket # 0 /\ readyState[socket] = "open"
       IN /\ CommitConn(IF isOpen THEN Conn ELSE connectWebSocket(Conn))
          /\ startPc' = IF isOpen THEN "getUserMedia" ELSE "checkConnection"
    /\ UNCHANGED <<playbackVars, stream, vadVars, webAudioContext>>
    /\ UNCHANGED <<stoppedInStart, audioContext, workletNode, isRecording>>
    /\ ConnRest
    /\ CallFrame
    /\ NoStopObserved

\* The catch block of startCall: the call is ended and everything is
\* cleaned up.
startCallCatch ==
    /\ CommitConn(cleanupCallResources(Conn))
    /\ stream' = FALSE
    /\ audioContext' = FALSE
    /\ workletNode' = FALSE
    /\ isRecording' = FALSE
    /\ TeardownReset
    /\ Commit([Playback EXCEPT !.isAudioPlaying = FALSE,
                               !.isAiSpeaking = FALSE])
    /\ startPc' = "idle"
    /\ UNCHANGED stoppedInStart

\* The checkConnection timeout in startCall: with this.socket null the
\* callback throws and startCall stays suspended for good; with the socket
\* open startCall asks for the microphone; otherwise the catch block runs.
startCallCheckConnection ==
    /\ startPc = "checkConnection"
    /\ IF socket = 0
       THEN /\ startPc' = "suspended"
            /\ UNCHANGED <<readyState, socket, intentionalDisconnect,
                           reconnectAttempts, isCallActive, socketOpen,
                           staleTimers, replaced>>
            /\ UNCHANGED <<playbackVars, stream, vadVars>>
            /\ UNCHANGED <<stoppedInStart, audioContext, workletNode,
                           isRecording>>
       ELSE IF readyState[socket] = "open"
       THEN /\ startPc' = "getUserMedia"
            /\ UNCHANGED <<readyState, socket, intentionalDisconnect,
                           reconnectAttempts, isCallActive, socketOpen,
                           staleTimers, replaced>>
            /\ UNCHANGED <<playbackVars, stream, vadVars>>
            /\ UNCHANGED <<stoppedInStart, audioContext, workletNode,
                           isRecording>>
       ELSE startCallCatch
    /\ UNCHANGED webAudioContext
    /\ ConnRest
    /\ CallFrame
    /\ NoStopObserved

\* getUserMedia resolves: the stream is stored, the AudioContext is created
\* and, when it starts suspended, resumed; then addModule is called.
startCallGotStream ==
    /\ startPc = "getUserMedia"
    /\ stream' = TRUE
    /\ audioContext' = TRUE
    /\ \E isSuspended \in BOOLEAN :
          startPc' = IF isSuspended THEN "resume" ELSE "addModule"
    /\ UNCHANGED <<readyState, socket, intentionalDisconnect,
                   reconnectAttempts, isCallActive, socketOpen,
                   staleTimers, replaced>>
    /\ UNCHANGED <<playbackVars, vadVars, webAudioContext>>
    /\ UNCHANGED <<stoppedInStart, workletNode, isRecording>>
    /\ ConnRest
    /\ CallFrame
    /\ NoStopObserved

\* audioContext.resume() resolves: addModule is called on this.audioContext,
\* which throws when stopCall has set it to null.
startCallResumed ==
    /\ startPc = "resume"
    /\ IF audioContext
       THEN /\ startPc' = "addModule"
            /\ UNCHANGED <<readyState, socket, intentionalDisconnect,
                           reconnectAttempts, isCallActive, socketOpen,
                           staleTimers, replaced>>
            /\ UNCHANGED <<playbackVars, stream, vadVars>>
            /\ UNCHANGED <<stoppedInStart, audioContext, workletNode,
                           isRecording>>
       ELSE startCallCatch
    /\ UNCHANGED webAudioContext
    /\ ConnRest
    /\ CallFrame
    /\ NoStopObserved

\* addModule resolves: the source and the worklet node are created from
\* this.audioContext (a throw when it is null), the call is marked active
\* and recording, and startCall is over.
startCallModuleAdded ==
    /\ startPc = "addModule"
    /\ IF audioContext
       THEN /\ workletNode' = TRUE
            /\ isRecording' = TRUE
            /\ CommitConn([Conn EXCEPT !.isCallActive = TRUE])
            /\ startPc' = "idle"
            /\ UNCHANGED <<playbackVars, stream, vadVars>>
            /\ UNCHANGED <<stoppedInStart, audioContext>>
       ELSE startCallCatch
    /\ UNCHANGED webAudioContext
    /\ ConnRest
    /\ CallFrame
    /\ NoStopObserved

\* getUserMedia, resume or addModule rejects: the catch block runs.
startCallRejected ==
    /\ startPc \in {"getUserMedia", "resume", "addModule"}
    /\ startCallCatch
    /\ UNCHANGED webAudioContext
    /\ ConnRest
    /\ CallFrame
    /\ NoStopObserved

\* toggleCall with a call active: stopCall.
toggleCallStop ==
    /\ isCallActive
    /\ workletNode' = FALSE
    /\ audioContext' = FALSE
    /\ stream' = FALSE
    /\ TeardownReset
    /\ isRecording' = FALSE
    /\ CommitConn([Conn EXCEPT !.isCallActive = FALSE])
    /\ stoppedInStart' = (stoppedInStart \/ startPc # "idle")
    /\ UNCHANGED <<playbackVars, webAudioContext, startPc>>
    /\ ConnRest
    /\ CallFrame
    /\ NoStopObserved

\* A logged-in user toggling the call while the socket opens, closes and
\* is reconnected.
StartStopNext ==
    \/ login
    \/ \E s \in SocketIds : SocketOnOpen(s)
    \/ \E s \in SocketIds, code \in CloseCodes : SocketOnClose(s, code)
    \/ ReconnectTimerFired
    \/ startCallBegin
    \/ startCallAfterWebAudio
    \/ startCallCheckConnection
    \/ startCallGotStream
    \/ startCallResumed
    \/ startCallModuleAdded
    \/ startCallRejected
    \/ toggleCallStop

SpecStartStop == Init /\ [][StartStopNext]_vars

\* The same with logouts.
DisconnectNext ==
    \/ ReconnectNext
    \/ logout

SpecDisconnect == Init /\ [][DisconnectNext]_vars
SpecDecode == InitPlayback /\ [][DecodeNext]_vars /\ DecodeFairness
SpecSileroEnergy == Init /\ [][SileroEnergyNext]_vars

\* ----------------------------------------------------------- properties
AtRest == <<<<>>, FALSE, FALSE, <<>>>>
StopFields(s) ==
    <<s.audioQueue, s.isAudioPlaying, s.isAiSpeaking, s.scheduledBuffers>>
NothingPlaying == InFlight(stage) = {} /\ Sounding(stage) = {}
InterruptSent == lastSent.source # "none"

\* C1: at the moment an interrupt message is passed to socket.send the stop
\* has already taken effect: queue empty, isAudioPlaying and isAiSpeaking
\* false, on every acceptance path.
C1_StopBeforeNotify ==
    InterruptSent =>
        /\ lastSent.queueEmpty
        /\ ~lastSent.isAudioPlaying
        /\ ~lastSent.isAiSpeaking

\* C2: any two consecutive accepted interrupts, whichever path accepted
\* them, are at least the rate-limit interval (2000 ms) apart.
C2_RateLimitAllSources ==
    [][(lastAccept' # lastAccept /\ lastAccept.path # "none")
        => lastAccept'.time - lastAccept.time >= LocalRateLimitMs]_vars

\* C3: no interrupt is accepted inside the feedback guard after
\* lastAudioStartTime: 1000 ms on the local path, 1200 ms on the server
\* fallback, and some positive guard on the worklet fallback.
C3_FeedbackGuard ==
    [][lastAccept' # lastAccept =>
        CASE lastAccept'.path = "local" ->
                now - lastAudioStartTime >= LocalFeedbackGuardMs
          [] lastAccept'.path = "server" ->
                now - lastAudioStartTime >= ServerFeedbackGuardMs
          [] OTHER -> now - lastAudioStartTime > 0]_vars

\* C4: once stopAudioPlayback has returned no started BufferSource and no
\* started Audio element is still playing.
C4_StopHaltsEverySound ==
    stopsInRow > 0 => Sounding(stage) = {}

\* C5: a chunk that was dequeued and still awaiting decode or audio.play()
\* when stopAudioPlayback ran never starts playing afterwards.
C5_StopCancelsInFlight ==
    \A i \in cancelled : stage[i] \notin {"playingWeb", "playingTrad"}

\* C6 as stated: stop twice equals stop once with the four fields at rest,
\* and a stop with nothing decoding or playing changes none of the fields.
C6_StopNoOpWhenNothingPlaying ==
    LET once == stopAudioPlayback(Playback) IN
    /\ StopFields(once) = AtRest
    /\ StopFields(stopAudioPlayback(once)) = StopFields(once)
    /\ NothingPlaying => StopFields(once) = StopFields(Playback)

\* C6 amended: from every reachable state one stop puts audioQueue,
\* isAudioPlaying, isAiSpeaking and scheduledBuffers at [], false, false,
\* [], a second stop right after changes none of them, and the state
\* after an executed stop is that rest state.
C6_IdempotentStop ==
    LET once == stopAudioPlayback(Playback) IN
    /\ StopFields(once) = AtRest
    /\ StopFields(stopAudioPlayback(once)) = StopFields(once)
    /\ stopsInRow > 0 => StopFields(Playback) = AtRest

C6_Witness ==
    stopsInRow = 2 /\ (InFlight(stage) # {} \/ Sounding(stage) # {})

\* C7: whenever the queue is empty and no dequeued chunk is decoding or
\* playing, isAiSpeaking is false.
C7_IdleImpliesNotSpeaking ==
    (Len(audioQueue) = 0 /\ NothingPlaying) => ~isAiSpeaking

\* C8: without any stop or flush, isAiSpeaking is true whenever a dequeued
\* chunk is decoding or playing.
C8_SpeakingWhilePlaying ==
    ~NothingPlaying => isAiSpeaking

\* C9: chunks left to play to completion start in enqueue order (the queue
\* holds ids in increasing order, each start is the next id), and the times
\* passed to source.start never decrease, each being max(now,
\* currentAudioTime) with currentAudioTime advanced by the duration.
QueueInOrder(q) ==
    \A a, b \in 1..Len(q) : a < b => q[a] < q[b]

C9_GaplessOrdering ==
    [][/\ QueueInOrder(audioQueue')
       /\ lastStarted' # lastStarted => lastStarted' = lastStarted + 1
       /\ lastStartTime' >= lastStartTime
       /\ \A i \in ChunkIds :
            (stage[i] = "decoding" /\ stage'[i] = "playingWeb") =>
               /\ lastStartTime' = Max(now, currentAudioTime)
               /\ currentAudioTime' = lastStartTime' + ChunkMs]_vars

C9_Witness ==
    /\ lastStarted = MaxChunks
    /\ lastStartTime > StartTime
    /\ \A i \in ChunkIds : stage[i] = "done"

\* C10: isSpeaking flips to true only on the frame that completes a run of
\* N = floor(minSpeechDurationMs / 64) frames above threshold, to false only
\* on the frame that completes M = floor(minSilenceDurationMs / 64) frames
\* not above it, the counters are the current runs (one contrary frame
\* resets a run to zero), a completed run always leaves the detector in
\* the matching state, and with threshold 0.5 and 250 ms the frames
\* 0.9 0.9 0.4 0.9 0.9 0.9 raise onSpeechStart at the 6th frame only.
IsAbove(x) ==
    IF detector = "worklet" THEN x > energyThreshold ELSE x > threshold

RECURSIVE TrailingRun(_, _)
TrailingRun(seq, above) ==
    IF seq = <<>> THEN 0
    ELSE IF IsAbove(seq[Len(seq)]) # above THEN 0
    ELSE 1 + TrailingRun(SubSeq(seq, 1, Len(seq) - 1), above)

RunAt(k, above) == TrailingRun(SubSeq(fed, 1, k), above)
NeedSpeech ==
    IF detector = "client" THEN minSpeechDurationMs \div windowSizeMs
    ELSE minSpeechFrames
NeedSilence ==
    IF detector = "client" THEN minSilenceDurationMs \div windowSizeMs
    ELSE minSilenceFrames
ExampleFrames == <<90, 90, 40, 90, 90, 90>>
SpeakingNow == IF detector = "worklet" THEN currentIsSpeaking ELSE isSpeaking

C10_Debounce ==
    /\ \A k \in 1..Len(fed) :
          /\ k \in speechStarts => RunAt(k, TRUE) = NeedSpeech
          /\ k \in speechEnds => RunAt(k, FALSE) = NeedSilence
    /\ detector = "client" =>
          /\ speechFrames = RunAt(Len(fed), TRUE)
          /\ silenceFrames = RunAt(Len(fed), FALSE)
    /\ detector = "worklet" =>
          /\ wSpeechFrames = RunAt(Len(fed), TRUE)
          /\ wSilenceFrames = RunAt(Len(fed), FALSE)
    /\ RunAt(Len(fed), TRUE) >= NeedSpeech => SpeakingNow
    /\ (fed # <<>> /\ RunAt(Len(fed), FALSE) >= NeedSilence) => ~SpeakingNow
    /\ Cardinality(speechStarts) - Cardinality(speechEnds) =
          IF SpeakingNow THEN 1 ELSE 0
    /\ (detector = "client" /\ threshold = 50 /\ minSpeechDurationMs = 250
          /\ fed = ExampleFrames) => speechStarts = {6}

C10_Witness ==
    /\ detector = "client" /\ threshold = 50 /\ minSpeechDurationMs = 250
    /\ fed = ExampleFrames
    /\ speechStarts = {6}

\* C11: the required run lengths are at least one frame for every
\* configuration that can be installed, so no frame that is not above
\* threshold turns isSpeaking on and no frame above threshold turns it off.
FrameStep == Len(fed') = Len(fed) + 1

C11_RunLengthsAtLeastOne ==
    [][FrameStep =>
        /\ (~SpeakingNow /\ SpeakingNow') => IsAbove(fed'[Len(fed')])
        /\ (SpeakingNow /\ ~SpeakingNow') => ~IsAbove(fed'[Len(fed')])]_vars

\* C16: a window whose session.run failed leaves ClientVAD's isSpeaking and
\* its speech/silence frame counters unchanged and raises neither
\* onSpeechStart nor onSpeechEnd.
C16_ClientInferenceFailure ==
    [][(detector = "client" /\ FrameStep /\ lastStep'.inference = "failed") =>
        /\ UNCHANGED <<speechFrames, silenceFrames, isSpeaking>>
        /\ lastStep'.callbacks \cap {"onSpeechStart", "onSpeechEnd"} = {}]_vars

\* C12: SileroVADClient turns isSpeaking on only after at least
\* N = minSpeechDurationMs / frameDurationMs consecutive frames above
\* threshold and off only after at least M consecutive frames not above it,
\* however the frames are spaced on the wall clock.
C12_SileroCountsFrames ==
    detector \in {"silero", "destroyed"} =>
        \A k \in 1..Len(fed) :
            /\ k \in speechStarts =>
                  RunAt(k, TRUE) * frameDurationMs >= minSpeechDurationMs
            /\ k \in speechEnds =>
                  RunAt(k, FALSE) * frameDurationMs >= minSilenceDurationMs

\* C13: for ClientVAD and SileroVADClient every false-to-true change of
\* isSpeaking comes with one onSpeechStart, every true-to-false change
\* (a reset while speaking included) with one onSpeechEnd, the edge
\* callbacks run on no other step, and every processed frame runs
\* onVADUpdate.
C13_EdgeEventsMatchTransitions ==
    [][detector # "worklet" =>
        /\ (~isSpeaking /\ isSpeaking') =>
              "onSpeechStart" \in lastStep'.callbacks
        /\ (isSpeaking /\ ~isSpeaking') =>
              "onSpeechEnd" \in lastStep'.callbacks
        /\ FrameStep =>
              /\ "onVADUpdate" \in lastStep'.callbacks
              /\ "onSpeechStart" \in lastStep'.callbacks
                    => (~isSpeaking /\ isSpeaking')
              /\ "onSpeechEnd" \in lastStep'.callbacks
                    => (isSpeaking /\ ~isSpeaking')]_vars

\* C14: when inferences overlap, the frame whose result is applied ran on
\* the recurrent state that is still current (the one its predecessor
\* left: no stale input, no lost update) and is later in arrival order
\* than every frame applied before it.
C14_FramesInArrivalOrder ==
    [][(FrameStep /\ inflight' # inflight) =>
        \A r \in inflight \ inflight' : r.hIn = h /\ r.k > h]_vars

\* C15: a frame whose model.run failed leaves isSpeaking, speechStartTime,
\* silenceStartTime, the last probability and the recurrent state as they
\* were, returns the last known {speechProb, isSpeaking}, runs no callback,
\* and leaves the detector taking frames: the other inferences in flight
\* and the frame intake are untouched.
FailedFrameStep ==
    /\ inflight' # inflight
    /\ inflight' \subseteq inflight
    /\ fed' = fed

C15_SileroInferenceFailure ==
    [][FailedFrameStep =>
        /\ UNCHANGED <<isSpeaking, speechStartTime, silenceStartTime, h,
                       currentSpeechProb>>
        /\ lastStep'.inference = "failed"
        /\ lastStep'.callbacks = {}
        /\ lastStep'.returned = [speechProb |-> currentSpeechProb,
                                 isSpeaking |-> isSpeaking]
        /\ UNCHANGED <<detector, arrived>>
        /\ Cardinality(inflight') = Cardinality(inflight) - 1]_vars

C15_Witness ==
    /\ detector = "silero"
    /\ lastStep.inference = "failed"
    /\ speechStartTime # 0
    /\ h # 0
    /\ inflight # {}

\* C17: on the local VAD path every update that meets the acceptance
\* condition (agent speaking, speech flagged, probability above the
\* interrupt threshold, guard and rate limit elapsed) is accepted, and the
\* acceptance stamps lastInterruptTime with the current time, stops
\* playback and, when the socket is open, sends exactly one interrupt
\* message carrying the source, the probability and that same time.
LocalCondition(p, b) ==
    /\ isAiSpeaking /\ b
    /\ p > InterruptThreshold
    /\ now - lastAudioStartTime >= LocalFeedbackGuardMs
    /\ now - lastInterruptTime >= LocalRateLimitMs

LocalAcceptedStep ==
    lastAccept' # lastAccept /\ lastAccept'.path = "local"

C17_LocalAcceptanceComplete ==
    /\ [](\A p \in LocalProbs, b \in BOOLEAN :
            LocalCondition(p, b) => onVADUpdateAccepts(p, b))
    /\ [][LocalAcceptedStep =>
            /\ \E p \in LocalProbs : LocalCondition(p, TRUE)
            /\ lastInterruptTime' = now
            /\ <<audioQueue', isAudioPlaying', isAiSpeaking',
                 scheduledBuffers'>> = AtRest
            /\ stopsInRow' > 0
            /\ IF socketOpen
               THEN /\ lastSent'.n # lastSent.n
                    /\ lastSent'.source = "silero_vad_immediate"
                    /\ lastSent'.speechProb \in
                           {p \in LocalProbs : LocalCondition(p, TRUE)}
                    /\ lastSent'.timestamp = now
                    /\ lastSent'.timestamp = lastInterruptTime'
               ELSE lastSent' = lastSent]_vars

\* An update that arrived exactly at the end of the feedback guard was
\* accepted and its message went out.
C17_Witness ==
    /\ lastAccept.path = "local"
    /\ lastAccept.time - lastAudioStartTime = LocalFeedbackGuardMs
    /\ lastInterruptTime = lastAccept.time
    /\ lastSent.source = "silero_vad_immediate"
    /\ lastSent.timestamp = lastAccept.time
    /\ lastSent.speechProb > InterruptThreshold
    /\ ~isAiSpeaking

\* C18: a rejected VAD update (onVADUpdate or 'vad_status') leaves
\* lastInterruptTime, the queue, isAudioPlaying, isAiSpeaking,
\* currentAudioTime and the false-positive timer as they were, and sends
\* no message.
RejectedUpdateStep ==
    /\ lastAccept' = lastAccept
    /\ \/ \E p \in LocalProbs, b \in BOOLEAN : onVADUpdate(p, b)
       \/ \E b \in BOOLEAN : RecvVadStatus(b)

C18_RejectionChangesNothing ==
    [][RejectedUpdateStep =>
        UNCHANGED <<lastInterruptTime, audioQueue, isAudioPlaying,
                    isAiSpeaking, currentAudioTime, scheduledBuffers,
                    falsePositiveTimer, lastSent>>]_vars

\* The agent is speaking, a false-positive timer is pending, and a true
\* server reading has just been turned away.
C18_Witness ==
    /\ prevServerSpeech
    /\ isAiSpeaking
    /\ falsePositiveTimer # 0
    /\ lastAccept.path = "local"
    /\ now - lastAccept.time < LocalRateLimitMs
    /\ lastAudioStartTime >= lastAccept.time
    /\ isAudioPlaying
    /\ stopsInRow = 0

\* C19: an interrupt message is sent only while isAiSpeaking is true, on
\* each of the three paths; the acceptance clears isAiSpeaking, so the
\* agent is speaking again only once a chunk has started since.
C19_InterruptOnlyWhileSpeaking ==
    /\ [][lastSent' # lastSent => (isAiSpeaking /\ ~isAiSpeaking')]_vars
    /\ [][lastAccept' # lastAccept => (isAiSpeaking /\ ~isAiSpeaking')]_vars
    /\ []((isAiSpeaking /\ lastAccept.path # "none")
            => lastAudioStartTime >= lastAccept.time)

\* After a worklet-path interrupt a new chunk started and the agent speaks
\* again.
C19_Witness ==
    /\ lastSent.source = "worklet_vad_fallback"
    /\ lastAccept.path = "worklet"
    /\ isAiSpeaking
    /\ lastAudioStartTime > lastAccept.time

\* C20: the server fallback accepts only a sustained reading: a
\* 'vad_status' true message whose predecessor was not true is never
\* accepted.
C20_ServerNeedsSustainedReading ==
    [][(lastAccept' # lastAccept /\ lastAccept'.path = "server")
        => prevServerSpeech]_vars

C22_EnergyFallbackDebounced ==
    [][(lastStep' # lastStep /\ lastStep'.inference \in {"fallback", "failed"})
        => lastStep'.returned.isSpeaking = isSpeaking']_vars

\* C23: on the model path of either detector, whatever the chunk sizes and
\* however the calls overlap, every frame handed to the inference has
\* exactly the frame size, the frames followed by the buffered rest are the
\* input in order with nothing lost or repeated, each frame is handed over
\* once, and when no call is pending the buffer holds less than a frame.
FrameSize == IF detector = "silero" THEN FrameBlocks ELSE WindowBlocks

C23_Framing ==
    /\ framed \o audioBuffer = [i \in 1..pushed |-> i]
    /\ Len(framed) = arrived * FrameSize
    /\ \A r \in inflight : r.k \in 1..arrived
    /\ \A r1, r2 \in inflight : r1.k = r2.k => r1 = r2
    /\ inflight = {} =>
          /\ Len(audioBuffer) < FrameSize
          /\ arrived = pushed \div FrameSize

\* Two calls overlap, each awaiting its frame, and a rest stays buffered.
C23_Witness ==
    /\ Cardinality(inflight) = 2
    /\ audioBuffer # <<>>
    /\ arrived >= 2
    /\ pushed = Len(framed) + Len(audioBuffer)

\* C24: when stopCall or cleanupAudioResources has run, the detector's
\* recurrent state is all zero and its buffer, timers and isSpeaking are
\* cleared, so no recurrent state passes from one call to the next.
C24_TeardownZeroesRecurrentState ==
    [][(isCallActive /\ ~isCallActive' /\ detector = "silero") =>
        /\ h' = 0
        /\ ~isSpeaking'
        /\ audioBuffer' = <<>>
        /\ speechStartTime' = 0
        /\ silenceStartTime' = 0]_vars

\* C25: reset(false) clears audioBuffer, speechProb, isSpeaking,
\* speechStartTime, silenceStartTime and lastStateChange and leaves the
\* recurrent state as it is; reset(true) does the same and zeroes the
\* recurrent state; neither changes the options nor whether the detector
\* is initialized.
C25_SoftAndHardReset ==
    [][\A force \in BOOLEAN : SileroResetCall(force) =>
        /\ audioBuffer' = <<>>
        /\ currentSpeechProb' = 0
        /\ ~isSpeaking'
        /\ speechStartTime' = 0
        /\ silenceStartTime' = 0
        /\ lastStateChange' = 0
        /\ h' = IF force THEN 0 ELSE h
        /\ UNCHANGED <<threshold, minSpeechDurationMs, minSilenceDurationMs,
                       detector>>]_vars

\* A frame went through the model and a block was buffered; a soft reset
\* has cleared the detector and kept the recurrent state.
C25_Witness ==
    /\ detector = "silero"
    /\ h # 0
    /\ fed = <<>> /\ lastStep = NoStep
    /\ currentSpeechProb = 0
    /\ audioBuffer = <<>>
    /\ pushed > Len(framed)

\* C26: updateConfig of either detector writes exactly those of threshold,
\* minSpeechDurationMs and minSilenceDurationMs that its argument holds;
\* the others keep their value, and isSpeaking, the run counters and
\* timers, the audio buffer and the recurrent state are left as they were.
C26_UpdateConfigHotSwap ==
    [][\A c \in ShortConfigs : (updateConfig(c) \/ SileroUpdateConfig(c)) =>
        /\ threshold' = IF "threshold" \in DOMAIN c
                        THEN c.threshold ELSE threshold
        /\ minSpeechDurationMs' = IF "minSpeechDurationMs" \in DOMAIN c
                                  THEN c.minSpeechDurationMs
                                  ELSE minSpeechDurationMs
        /\ minSilenceDurationMs' = IF "minSilenceDurationMs" \in DOMAIN c
                                   THEN c.minSilenceDurationMs
                                   ELSE minSilenceDurationMs
        /\ UNCHANGED <<isSpeaking, speechFrames, silenceFrames,
                       speechStartTime, silenceStartTime, lastStateChange,
                       currentSpeechProb, audioBuffer, h, inflight>>]_vars

\* ClientVAD took a shorter minSpeechDurationMs alone while a run of speech
\* frames was counted, a window was in flight and samples were buffered.
C26_Witness ==
    /\ detector = "client"
    /\ minSpeechDurationMs = 50
    /\ minSilenceDurationMs = 100
    /\ speechFrames >= 1
    /\ inflight # {}
    /\ audioBuffer # <<>>

\* C27: when an interrupt is accepted while the socket is not open, the
\* stop still takes full effect (queue empty, isAudioPlaying and
\* isAiSpeaking false), lastInterruptTime is still recorded on the
\* rate-limited paths, no message is sent, and the handler runs to its
\* end: on the local path the false-positive timer is armed.
C27_TransportUnavailable ==
    [][(lastAccept' # lastAccept /\ ~socketOpen) =>
        /\ audioQueue' = <<>>
        /\ ~isAudioPlaying'
        /\ ~isAiSpeaking'
        /\ stopsInRow' > 0
        /\ lastSent' = lastSent
        /\ lastAccept'.path \in {"local", "server"} =>
              lastInterruptTime' = now
        /\ lastAccept'.path = "local" =>
              falsePositiveTimer' = now + FalsePositiveWindowMs]_vars

\* A local interrupt was accepted with the socket gone: nothing was ever
\* sent, playback is stopped, the time is recorded and the timer armed.
C27_Witness ==
    /\ ~socketOpen
    /\ lastAccept.path = "local"
    /\ lastSent = NoMsg
    /\ lastInterruptTime = lastAccept.time
    /\ falsePositiveTimer = lastAccept.time + FalsePositiveWindowMs
    /\ ~isAiSpeaking /\ ~isAudioPlaying /\ audioQueue = <<>>

\* C28: whichever chunks fail to decode or to play, each of them is
\* skipped, every other chunk is started, and once no further chunk arrives
\* the scheduler comes to rest for good: the queue empty, isAudioPlaying
\* and isAiSpeaking false, no chunk left waiting.
C28_FailuresNeverDeadlock ==
    /\ [][\A i \in ChunkIds :
            (stage[i] # "done" /\ stage'[i] = "done") =>
                stage[i] \in {"starting", "errored", "playingWeb", "playingTrad"}]_vars
    /\ <>[](/\ audioQueue = <<>>
            /\ ~isAudioPlaying
            /\ ~isAiSpeaking
            /\ \A i \in ChunkIds : stage[i] \in {"unsent", "done"})

\* A chunk's Audio element raised an error while it was starting and the
\* scheduler has moved on: the next chunk is starting.
C28_Witness ==
    \E i, j \in ChunkIds :
        /\ i < j
        /\ stage[i] = "errored"
        /\ stage[j] \in {"starting", "decoding"}
        /\ isAudioPlaying

\* C29: when the false-positive timeout set by a local interrupt runs out
\* with the socket open, no transcription having cleared it and no newer
\* interrupt having re-armed it, a resume_speech message is sent.
C29_ResumeAfterFalsePositive ==
    [][(/\ falsePositiveTimer \in falsePositiveTimeouts
        /\ falsePositiveTimer = lastAccept.time + FalsePositiveWindowMs
        /\ now >= falsePositiveTimer
        /\ falsePositiveTimeouts' = falsePositiveTimeouts \ {falsePositiveTimer}
        /\ ~userHasSpoken'
        /\ socketOpen)
       => (lastSent'.source = "resume_speech" /\ lastSent'.n # lastSent.n)]_vars

C31_AtMostOneChunkInFlight ==
    Cardinality(InFlight(stage) \cup Sounding(stage)) <= 1

\* C32: while the reply goes on chunk after chunk and every detector result
\* reports speech above interruptThreshold, an interrupt is eventually
\* accepted, whatever the duration of the chunks.
C32_BargeInEventually ==
    <>(lastAccept.path = "local")

\* The run counters and the threshold of the detector in use.
RunCounters ==
    IF detector = "worklet"
    THEN [speech |-> wSpeechFrames, silence |-> wSilenceFrames,
          threshold |-> energyThreshold]
    ELSE [speech |-> speechFrames, silence |-> silenceFrames,
          threshold |-> threshold]

\* C33: once a frame has been processed by ClientVAD or by the worklet,
\* exactly one of the two run counters is zero, the other one is the length
\* of the run the last frame belongs to, and a frame whose probability or
\* energy equals the threshold belongs to a run of silence.
C33_ExclusiveStrictCounters ==
    (detector \in {"client", "worklet"} /\ fed # <<>>) =>
        LET last == fed[Len(fed)]
            c == RunCounters
        IN /\ (c.speech = 0) # (c.silence = 0)
           /\ last > c.threshold =>
                 c.silence = 0 /\ c.speech = RunAt(Len(fed), TRUE)
           /\ last < c.threshold =>
                 c.speech = 0 /\ c.silence = RunAt(Len(fed), FALSE)
           /\ last = c.threshold =>
                 /\ c.speech = 0
                 /\ c.silence >= 1
                 /\ c.silence = RunAt(Len(fed), FALSE)

\* A window whose energy equals the threshold has just ended a run of two
\* speech windows in the worklet.
C33_Witness ==
    /\ detector = "worklet"
    /\ Len(fed) >= 3
    /\ fed[Len(fed)] = energyThreshold
    /\ fed[Len(fed) - 1] > energyThreshold
    /\ fed[Len(fed) - 2] > energyThreshold
    /\ wSpeechFrames = 0
    /\ wSilenceFrames = 1

\* C34: at most one false-positive timeout is pending at any time, and it
\* is the one whose handle the field holds; when a 'transcription' message
\* is handled while a timeout is pending, none is pending afterwards, so no
\* callback runs and no resume is requested for that interrupt.
C34_TimerDiscipline ==
    /\ [](Cardinality(falsePositiveTimeouts) <= 1)
    /\ [](falsePositiveTimeouts \subseteq {falsePositiveTimer})
    /\ [][RecvTranscription => falsePositiveTimeouts' = {}]_vars

\* A second interrupt was accepted while the timeout of the first one had
\* not fired yet: only the new timeout is pending.
C34_Witness ==
    /\ lastAccept.path = "local"
    /\ lastAccept.n = 0
    /\ lastAccept.time = now
    /\ falsePositiveTimeouts = {now + FalsePositiveWindowMs}

\* C35: once a logout or a cleanup has run (the socket closed on purpose,
\* the call no longer active), neither a close handler nor a reconnection
\* timeout that was pending at that moment creates a WebSocket.
C35_NoReconnectAfterDisconnect ==
    [][((staleTimers' < staleTimers)
        \/ (\E s \in SocketIds : readyState[s] # "closed"
                                 /\ readyState'[s] = "closed"))
       => (\A s \in SocketIds : readyState[s] = "unused"
                                  => readyState'[s] = "unused")]_vars

\* At most one socket is connecting or open.
OneLiveSocket ==
    Cardinality({s \in SocketIds : readyState[s] \in {"connecting", "open"}})
        <= 1

\* C36: the close event of a socket that connectWebSocket replaced leaves
\* the new socket in this.socket and as it was, and leaves the call and its
\* microphone stream as they were; at most one socket is connecting or open.
C36_ReplacementKeepsNew ==
    /\ [][\A s \in replaced :
            (/\ readyState[s] = "closing" /\ readyState'[s] = "closed"
             /\ socket # 0 /\ socket # s)
            => (/\ socket' = socket
                /\ readyState'[socket] = readyState[socket]
                /\ isCallActive' = isCallActive
                /\ stream' = stream)]_vars
    /\ []OneLiveSocket

\* C37: when stopCall ran while startCall was suspended at one of its
\* awaits, then at the end of that startCall the call is not active and not
\* recording, and no microphone stream, AudioContext or worklet node is
\* live.
C37_StopWinsOverStart ==
    [][(startPc # "idle" /\ startPc' = "idle" /\ stoppedInStart)
       => (/\ ~isCallActive' /\ ~isRecording'
           /\ ~stream' /\ ~audioContext' /\ ~workletNode')]_vars

\* C38: after every process() call _vadBuffer holds fewer than
\* _vadWindowSize samples and _buffer fewer than the required chunk length;
\* in the processor that does not resample every posted 'audioData' message
\* has _chunkSize samples, the messages posted so far are, one after the
\* other, the PCM16 conversion of the first samples of the input stream,
\* and _buffer holds the samples that follow them up to the last one given.
C38_WorkletFraming ==
    /\ Len(wVadBuffer) < vadWindowSize
    /\ Len(wBuffer) < requiredInputLength
    /\ processorKind = "AudioProcessor" =>
          /\ \A k \in 1..Len(posts) :
                /\ Len(posts[k]) = chunkSize
                /\ \A j \in 1..chunkSize :
                      posts[k][j] =
                         toPCM16(Sample((postedBefore + k - 1) * chunkSize + j))
          /\ (postedBefore + Len(posts)) * chunkSize + Len(wBuffer) = consumed
          /\ \A j \in 1..Len(wBuffer) :
                wBuffer[j] =
                   Sample((postedBefore + Len(posts)) * chunkSize + j)

C38_Witness ==
    /\ processorKind = "AudioProcessor"
    /\ Len(posts) = 1
    /\ postedBefore = 1
    /\ Len(wBuffer) > 0
    /\ Len(wVadBuffer) > 0

\* C39: sendRealTimeAudioChunk transmits a chunk exactly when the socket is
\* open and no chunk with the same hash was transmitted less than 500 ms
\* earlier; a call that does not transmit leaves recentAudioHashes as it
\* was; after a transmission no entry of recentAudioHashes is older than
\* 2000 ms; the map holds one entry per hash.
C39_OutboundDedup ==
    /\ [][\A c \in AudioChunks :
            sendRealTimeAudioChunk(c) =>
               /\ (transmitted' # transmitted) <=>
                     (/\ socketOpen
                      /\ ~\E e \in transmitted :
                            /\ e.hash = getAudioHash(c)
                            /\ now - e.time < DuplicateWindowMs)
               /\ (transmitted' = transmitted) =>
                     recentAudioHashes' = recentAudioHashes
               /\ (transmitted' # transmitted) =>
                     /\ [hash |-> getAudioHash(c), time |-> now]
                           \in recentAudioHashes'
                     /\ \A e \in recentAudioHashes' :
                           now - e.time <= HashRetentionMs]_vars
    /\ [](\A e1, e2 \in recentAudioHashes : e1.hash = e2.hash => e1 = e2)

\* A chunk was just suppressed as a duplicate of one with the same hash
\* sent less than 500 ms ago, while the entry of another hash, sent more
\* than 2000 ms ago and not yet swept, is still in the map.
C39_Witness ==
    /\ socketOpen /\ ~lastChunk.sent /\ lastChunk.time = now
    /\ \E e \in recentAudioHashes :
          e.hash = lastChunk.hash /\ now - e.time > 0
    /\ \E e \in recentAudioHashes :
          e.hash # lastChunk.hash /\ now - e.time > HashRetentionMs
====
